---- MODULE Spec2Model ----
(***************************************************************************)
(* Model of the Android/Bump reader codec (android_reader.cpp) and of the *)
(* MTK writer codec (mtk_writer.cpp) of libmbbootimg.                      *)
(*                                                                         *)
(* One behaviour is the life of one facade, chosen by Init:                 *)
(*   "reader"  a Reader whose format is forced to Android: the Android      *)
(*             codec's entry points are called directly, bid included       *)
(*             (with any best_bid, as a dispatcher would call it);          *)
(*   "options" the same, on two images, with set_option calls;              *)
(*   "detect"  a Reader that detects the format: Android and Bump are       *)
(*             registered, in any order, and the dispatcher probes;         *)
(*   "writer"  a Writer with the MTK format, given one logical header       *)
(*             out of many;                                                 *)
(*   "stream"  a Writer with the MTK format that goes on to stream the      *)
(*             entries and to close, and to close again when a close has    *)
(*             failed.                                                      *)
(* The Android and the Bump context are separate objects, and a Writer has  *)
(* its own context and file: no call on one reads or writes another.        *)
(* Each action is one call of an entry point, taken as a whole.             *)
(*                                                                         *)
(* Unsigned 64-bit positions of the reader: every value stays far          *)
(* below 2^31, except the padding 2^64 - item that align_page_size may     *)
(* return for a page size of 0; it is represented by the integer -item, so *)
(* that pos + padding is the 64-bit sum modulo 2^64.                       *)
(***************************************************************************)
EXTENDS Integers, Sequences, FiniteSets

VARIABLES
    align0,     \* what this build's align_page_size makes of a page size
                \* of 0: "none" or "wrap"
    facade,     \* "reader", "options", "detect", "writer" or "stream"
    file,       \* the reader's image file (never written by the reader)
    fpos,       \* the reader file's position
    formats,    \* registered reader codecs, in registration order
    ctx,        \* codec name -> AndroidReaderCtx
    header,     \* the logical Header filled by read_header
    last,       \* the last reader call: its name, its arguments, the file
                \* operations it made and, for a probe, the bids and the choice
    ret,        \* the value the last reader call returned
    wctx,       \* the MtkWriterCtx
    wfile,      \* the writer's file
    wpos,       \* the writer file's position
    wstate,     \* where the Writer is: "header", "entry" (between
                \* entries), "data" (in an entry), "fatal", "closing" (a
                \* close has failed and can be tried again), "closed"
    wdata,      \* what the caller has streamed: for each entry it got,
                \* its type and the data it wrote to it with success
    wlast,      \* the last writer call
    wret,       \* the value the last writer call returned
    werr        \* the error code the last writer call set

vars == <<align0, facade, file, fpos, formats, ctx, header, last, ret,
          wctx, wfile, wpos, wstate, wdata, wlast, wret, werr>>
rvars == <<file, fpos, formats, ctx, header, last, ret>>
wvars == <<wctx, wfile, wpos, wstate, wdata, wlast, wret, werr>>

----------------------------------------------------------------------------
(* Program constants *)

RET_OK == 0
RET_EOF == -1
RET_UNSUPPORTED == -2
RET_WARN == -3
RET_FAILED == -4
RET_FATAL == -5

BOOT_MAGIC_SIZE == 8
SAMSUNG_SEANDROID_MAGIC_SIZE == 16
BUMP_MAGIC_SIZE == 16
MAX_HEADER_OFFSET == 512
SizeofAndroidHeader == 608
SizeofName == 16
SizeofCmdline == 512
SizeofMtkHeader == 512
OffsetofMtkHeaderSize == 4

ENTRY_TYPE_KERNEL == "KERNEL"
ENTRY_TYPE_RAMDISK == "RAMDISK"
ENTRY_TYPE_SECONDBOOT == "SECONDBOOT"
ENTRY_TYPE_DEVICE_TREE == "DEVICE_TREE"
ENTRY_TYPE_MTK_KERNEL_HEADER == "MTK_KERNEL_HEADER"
ENTRY_TYPE_MTK_RAMDISK_HEADER == "MTK_RAMDISK_HEADER"

Min(a, b) == IF a < b THEN a ELSE b
Max(a, b) == IF a > b THEN a ELSE b
SetMin(S) == CHOOSE x \in S : \A y \in S : x <= y

----------------------------------------------------------------------------
(* Unsigned integers of the writer.  An entry's size reaches UINT32_MAX    *)
(* and a file position goes beyond it, so a size, offset or position of    *)
(* the writer is held exactly as h * Limb + l with 0 <= l < Limb.          *)

Limb == 1048576

U64(n) == [h |-> n \div Limb, l |-> n % Limb]
Norm(h, l) == [h |-> h + (l \div Limb), l |-> l % Limb]
Add(x, y) == Norm(x.h + y.h, x.l + y.l)
\* x - y, for x >= y
Sub(x, y) == Norm(x.h - y.h - 1, x.l + Limb - y.l)
Less(x, y) == x.h < y.h \/ (x.h = y.h /\ x.l < y.l)
Leq(x, y) == x = y \/ Less(x, y)

\* 2^32 = 4096 * Limb
UINT32_MAX == [h |-> 4095, l |-> Limb - 1]
\* the conversion of a uint64_t to uint32_t
ToU32(x) == [h |-> x.h % 4096, l |-> x.l]
\* x + y and x - y as uint32_t
Add32(x, y) == ToU32(Add(x, y))
Sub32(x, y) == ToU32(Sub(Add(x, [h |-> 4096, l |-> 0]), y))
\* x % p for a p that divides Limb (every power of two up to 2^20)
ModPage(x, p) == x.l % p

----------------------------------------------------------------------------
(* The abstract file, as the codecs use it.  An io record threads one      *)
(* call's file operations: n counts them, the failAt-th one fails (0:      *)
(* none), fatal is the file's fatal bit when it does.                      *)

NewIo(pos, failAt, fatal) ==
    [n |-> 0, failAt |-> failAt, fatal |-> fatal, failed |-> FALSE, pos |-> pos]

file_seek(io, offset) ==
    IF io.n + 1 = io.failAt
    THEN [io EXCEPT !.n = @ + 1, !.failed = TRUE]
    ELSE [io EXCEPT !.n = @ + 1, !.pos = offset]

\* file_read_fully: the bytes read are [io.pos, io.pos + n) of the file
file_read_fully(f, io, count) ==
    IF io.n + 1 = io.failAt
    THEN [io |-> [io EXCEPT !.n = @ + 1, !.failed = TRUE], n |-> 0, at |-> io.pos]
    ELSE LET n == Min(count, Max(0, f.size - io.pos))
         IN  [io |-> [io EXCEPT !.n = @ + 1, !.pos = @ + n], n |-> n, at |-> io.pos]

\* the fatal bit is not looked at (C19 must tell it from the code)
FileErr_failed(io) == RET_FAILED

FileErr(io) == IF io.fatal THEN RET_FATAL ELSE RET_FAILED

----------------------------------------------------------------------------
(* Page alignment *)

\* the powers of two below 2^31
Pow2 == {2^i : i \in 0..30}
IsPow2(x) == x \in Pow2

\* the padding that takes item_size up to the next multiple of page_size.
\* Zero has no multiple but itself: in this build the padding is then either
\* none, or 2^64 - item_size, which wraps the position to 0 (written
\* -item_size, see above).
align_page_size(item_size, page_size) ==
    IF page_size = 0
    THEN IF align0 = "wrap" THEN 0 - item_size ELSE 0
    ELSE (page_size - (item_size % page_size)) % page_size

----------------------------------------------------------------------------
(* android_reader.cpp: locating the header and the trailing magics.        *)
(* An image file f is described by what the codec can see of it:           *)
(*   f.size    its length in bytes                                         *)
(*   f.magic   the offsets at which the 8 bytes "ANDROID!" occur           *)
(*   f.hdr     the integer fields (decoded little-endian) of the 608 bytes *)
(*             that start at the first of those offsets                    *)
(*   f.tail    the 16 bytes at offset f.tail.off hold the magic            *)
(*             f.tail.kind ("samsung", "bump"), or none does ("none")      *)

ZeroHdr ==
    [kernel_size |-> 0, ramdisk_size |-> 0, second_size |-> 0,
     dt_size |-> 0, page_size |-> 0]

\* mb_memmem(buf, n, BOOT_MAGIC, BOOT_MAGIC_SIZE) on the first n bytes:
\* the offsets at which the whole magic lies inside the buffer
MagicIn(f, n) == {o \in f.magic : o + BOOT_MAGIC_SIZE <= n}

Found(r, hdr, offset, io) ==
    [ret |-> r, hdr |-> hdr, offset |-> offset, io |-> io]

\* after the read: r is its result
find_android_header_search(f, r, hdr_out, offset_out) ==
    IF r.io.failed THEN Found(FileErr(r.io), hdr_out, offset_out, r.io)
    ELSE IF MagicIn(f, r.n) = {}
    THEN Found(RET_WARN, hdr_out, offset_out, r.io)
    ELSE IF r.n - SetMin(MagicIn(f, r.n)) < SizeofAndroidHeader
    THEN Found(RET_WARN, hdr_out, offset_out, r.io)
    ELSE Found(RET_OK, f.hdr, SetMin(MagicIn(f, r.n)), r.io)

\* after the seek: s is the io record it leaves
find_android_header_read(f, max_header_offset, s, hdr_out, offset_out) ==
    IF s.failed THEN Found(FileErr(s), hdr_out, offset_out, s)
    ELSE find_android_header_search(
             f, file_read_fully(f, s, max_header_offset + SizeofAndroidHeader),
             hdr_out, offset_out)

find_android_header(f, max_header_offset, io, hdr_out, offset_out) ==
    IF max_header_offset > MAX_HEADER_OFFSET
    THEN Found(RET_WARN, hdr_out, offset_out, io)
    ELSE find_android_header_read(f, max_header_offset, file_seek(io, 0),
                                  hdr_out, offset_out)

\* pos += size; pos += align_page_size(pos, page_size)
SkipSection(pos, size, page_size) ==
    (pos + size) + align_page_size(pos + size, page_size)

\* a position that is not rounded up after the device tree (C21 must tell
\* it from the code)
TrailerPos_unaligned(hdr) ==
    SkipSection(
        SkipSection(
            SkipSection(0 + hdr.page_size, hdr.kernel_size, hdr.page_size),
            hdr.ramdisk_size, hdr.page_size),
        hdr.second_size, hdr.page_size)
    + hdr.dt_size

\* pos after skipping the header page, kernel, ramdisk, second and dt
TrailerPos(hdr) ==
    SkipSection(
        SkipSection(
            SkipSection(
                SkipSection(0 + hdr.page_size, hdr.kernel_size, hdr.page_size),
                hdr.ramdisk_size, hdr.page_size),
            hdr.second_size, hdr.page_size),
        hdr.dt_size, hdr.page_size)

\* memcmp of the n bytes read at offset `at` against the magic `kind`
MagicAt(f, at, n, kind, magic_size) ==
    /\ n = magic_size
    /\ f.tail.kind = kind
    /\ f.tail.off = at

MagicFound(r, offset, io) == [ret |-> r, offset |-> offset, io |-> io]

find_samsung_seandroid_magic_cmp(f, pos, r, offset_out) ==
    IF r.io.failed THEN MagicFound(FileErr(r.io), offset_out, r.io)
    ELSE IF ~MagicAt(f, r.at, r.n, "samsung", SAMSUNG_SEANDROID_MAGIC_SIZE)
    THEN MagicFound(RET_WARN, offset_out, r.io)
    ELSE MagicFound(RET_OK, pos, r.io)

find_samsung_seandroid_magic_read(f, pos, s, offset_out) ==
    IF s.failed THEN MagicFound(FileErr(s), offset_out, s)
    ELSE find_samsung_seandroid_magic_cmp(
             f, pos, file_read_fully(f, s, SAMSUNG_SEANDROID_MAGIC_SIZE),
             offset_out)

find_samsung_seandroid_magic_at(f, pos, io, offset_out) ==
    find_samsung_seandroid_magic_read(f, pos, file_seek(io, pos), offset_out)

find_samsung_seandroid_magic(f, hdr, io, offset_out) ==
    find_samsung_seandroid_magic_at(f, TrailerPos(hdr), io, offset_out)

find_bump_magic_cmp(f, pos, r, offset_out) ==
    IF r.io.failed THEN MagicFound(FileErr(r.io), offset_out, r.io)
    ELSE IF ~MagicAt(f, r.at, r.n, "bump", BUMP_MAGIC_SIZE)
    THEN MagicFound(RET_WARN, offset_out, r.io)
    ELSE MagicFound(RET_OK, pos, r.io)

find_bump_magic_read(f, pos, s, offset_out) ==
    IF s.failed THEN MagicFound(FileErr(s), offset_out, s)
    ELSE find_bump_magic_cmp(f, pos, file_read_fully(f, s, BUMP_MAGIC_SIZE),
                             offset_out)

find_bump_magic_at(f, pos, io, offset_out) ==
    find_bump_magic_read(f, pos, file_seek(io, pos), offset_out)

find_bump_magic(f, hdr, io, offset_out) ==
    find_bump_magic_at(f, TrailerPos(hdr), io, offset_out)

----------------------------------------------------------------------------
(* android_reader.cpp: the codec entry points.  Each returns the value the *)
(* C++ function returns, the context as it leaves it, and the io record.   *)

NewCtx ==
    [hdr |-> ZeroHdr,
     have_header_offset |-> FALSE, header_offset |-> 0,
     have_samsung_offset |-> FALSE, samsung_offset |-> 0,
     have_bump_offset |-> FALSE, bump_offset |-> 0,
     allow_truncated_dt |-> FALSE,
     seg |-> <<>>]

AndroidMaxBid == (BOOT_MAGIC_SIZE + SAMSUNG_SEANDROID_MAGIC_SIZE) * 8
BumpMaxBid == (BOOT_MAGIC_SIZE + BUMP_MAGIC_SIZE) * 8

Bid(r, c, io) == [ret |-> r, ctx |-> c, io |-> io]

\* the context once find_android_header has stored the header h in it
CtxWithHeader(c, h) ==
    [c EXCEPT !.hdr = h.hdr, !.header_offset = h.offset,
              !.have_header_offset = TRUE]

\* a bid that never counts the Samsung magic (C1 must tell it from the code)
android_reader_bid_magic_blind(c, bid, m) ==
    IF m.ret = RET_OK \/ m.ret = RET_WARN THEN Bid(bid, c, m.io)
    ELSE Bid(m.ret, c, m.io)

\* c holds the header, bid is the bid so far, m the result of the search
android_reader_bid_magic(c, bid, m) ==
    IF m.ret = RET_OK
    THEN Bid(bid + SAMSUNG_SEANDROID_MAGIC_SIZE * 8,
             [c EXCEPT !.samsung_offset = m.offset,
                       !.have_samsung_offset = TRUE], m.io)
    ELSE IF m.ret = RET_WARN THEN Bid(bid, c, m.io)
    ELSE Bid(m.ret, c, m.io)

\* h is the result of find_android_header
android_reader_bid_header(c, f, h) ==
    IF h.ret = RET_OK
    THEN android_reader_bid_magic(
             CtxWithHeader(c, h), 0 + BOOT_MAGIC_SIZE * 8,
             find_samsung_seandroid_magic(f, h.hdr, h.io, c.samsung_offset))
    ELSE IF h.ret = RET_WARN THEN Bid(0, c, h.io)
    ELSE Bid(h.ret, c, h.io)

\* a bid that gives up only above its maximum (C2 must tell it from the code)
android_reader_bid_above(c, f, best_bid, io) ==
    IF best_bid > AndroidMaxBid THEN Bid(RET_WARN, c, io)
    ELSE android_reader_bid_header(
             c, f, find_android_header(f, MAX_HEADER_OFFSET, io, c.hdr,
                                       c.header_offset))

android_reader_bid(c, f, best_bid, io) ==
    IF best_bid >= AndroidMaxBid THEN Bid(RET_WARN, c, io)
    ELSE android_reader_bid_header(
             c, f, find_android_header(f, MAX_HEADER_OFFSET, io, c.hdr,
                                       c.header_offset))

\* a bid that never counts the Bump magic (C3 must tell it from the code)
bump_reader_bid_magic_blind(c, bid, m) ==
    IF m.ret = RET_OK \/ m.ret = RET_WARN THEN Bid(bid, c, m.io)
    ELSE Bid(m.ret, c, m.io)

bump_reader_bid_magic(c, bid, m) ==
    IF m.ret = RET_OK
    THEN Bid(bid + BUMP_MAGIC_SIZE * 8,
             [c EXCEPT !.bump_offset = m.offset, !.have_bump_offset = TRUE],
             m.io)
    ELSE IF m.ret = RET_WARN THEN Bid(bid, c, m.io)
    ELSE Bid(m.ret, c, m.io)

bump_reader_bid_header(c, f, h) ==
    IF h.ret = RET_OK
    THEN bump_reader_bid_magic(
             CtxWithHeader(c, h), 0 + BOOT_MAGIC_SIZE * 8,
             find_bump_magic(f, h.hdr, h.io, c.bump_offset))
    ELSE IF h.ret = RET_WARN THEN Bid(0, c, h.io)
    ELSE Bid(h.ret, c, h.io)

bump_reader_bid(c, f, best_bid, io) ==
    IF best_bid >= BumpMaxBid THEN Bid(RET_WARN, c, io)
    ELSE bump_reader_bid_header(
             c, f, find_android_header(f, MAX_HEADER_OFFSET, io, c.hdr,
                                       c.header_offset))

----------------------------------------------------------------------------
(* Option strings are sequences of character codes.                        *)

ToLower(ch) == IF ch \in 65..90 THEN ch + 32 ELSE ch
strcmp0(a, b) == a = b
\* a comparison that minds the letter case (C7 must tell it from the code)
strcasecmp0_exact(a, b) == a = b
strcasecmp0(a, b) ==
    /\ Len(a) = Len(b)
    /\ \A i \in 1..Len(a) : ToLower(a[i]) = ToLower(b[i])

S_strict == <<115, 116, 114, 105, 99, 116>>
S_true == <<116, 114, 117, 101>>
S_yes == <<121, 101, 115>>
S_y == <<121>>
S_1 == <<49>>

IsStrict(value) ==
    \/ strcasecmp0(value, S_true)
    \/ strcasecmp0(value, S_yes)
    \/ strcasecmp0(value, S_y)
    \/ strcmp0(value, S_1)

\* an option whose key is matched in any letter case (C8 must tell it from
\* the code)
android_reader_set_option_anycase(c, key, value) ==
    IF strcasecmp0(key, S_strict)
    THEN [ret |-> RET_OK,
          ctx |-> [c EXCEPT !.allow_truncated_dt = ~IsStrict(value)]]
    ELSE [ret |-> RET_WARN, ctx |-> c]

android_reader_set_option(c, key, value) ==
    IF strcmp0(key, S_strict)
    THEN [ret |-> RET_OK,
          ctx |-> [c EXCEPT !.allow_truncated_dt = ~IsStrict(value)]]
    ELSE [ret |-> RET_WARN, ctx |-> c]

----------------------------------------------------------------------------
(* The reader's segment table (SegmentReader) and the logical Header       *)

SegTypes(seg) == {seg[i].type : i \in 1..Len(seg)}

entries_add_r(seg, type, offset, size, can_truncate) ==
    IF type \in SegTypes(seg)
    THEN [ret |-> RET_UNSUPPORTED, seg |-> seg]
    ELSE [ret |-> RET_OK,
          seg |-> Append(seg, [type |-> type, offset |-> offset, size |-> size,
                               can_truncate |-> can_truncate])]

NoHeader == [set |-> FALSE, page_size |-> 0]

\* android_set_header: every field it sets is in SUPPORTED_FIELDS, and a
\* supported field accepts any value
android_set_header(hdr) ==
    [ret |-> RET_OK, header |-> [set |-> TRUE, page_size |-> hdr.page_size]]

\* the section offsets computed from the context and the header's page size
kernel_offset(c, page_size) ==
    SkipSection(0 + c.header_offset, SizeofAndroidHeader, page_size)
ramdisk_offset(c, page_size) ==
    SkipSection(kernel_offset(c, page_size), c.hdr.kernel_size, page_size)
second_offset(c, page_size) ==
    SkipSection(ramdisk_offset(c, page_size), c.hdr.ramdisk_size, page_size)
dt_offset(c, page_size) ==
    SkipSection(second_offset(c, page_size), c.hdr.second_size, page_size)

HeaderRead(r, c, io, lh, header_set) ==
    [ret |-> r, ctx |-> c, io |-> io, header |-> lh,
     header_set |-> header_set]

\* a is the result of the last entries_add so far
read_header_done(c, io, lh, a) ==
    HeaderRead(a.ret, [c EXCEPT !.seg = a.seg], io, lh, TRUE)

read_header_dt(c, io, lh, a) ==
    IF a.ret # RET_OK THEN read_header_done(c, io, lh, a)
    ELSE IF c.hdr.dt_size > 0
    THEN read_header_done(c, io, lh,
             entries_add_r(a.seg, ENTRY_TYPE_DEVICE_TREE,
                           dt_offset(c, lh.page_size), c.hdr.dt_size,
                           c.allow_truncated_dt))
    ELSE read_header_done(c, io, lh, a)

\* a table that always has a SECONDBOOT entry (C4 must tell it from the code)
read_header_second_always(c, io, lh, a) ==
    IF a.ret # RET_OK THEN read_header_done(c, io, lh, a)
    ELSE read_header_dt(c, io, lh,
             entries_add_r(a.seg, ENTRY_TYPE_SECONDBOOT,
                           second_offset(c, lh.page_size),
                           c.hdr.second_size, FALSE))

read_header_second(c, io, lh, a) ==
    IF a.ret # RET_OK THEN read_header_done(c, io, lh, a)
    ELSE IF c.hdr.second_size > 0
    THEN read_header_dt(c, io, lh,
             entries_add_r(a.seg, ENTRY_TYPE_SECONDBOOT,
                           second_offset(c, lh.page_size),
                           c.hdr.second_size, FALSE))
    ELSE read_header_dt(c, io, lh, a)

read_header_ramdisk(c, io, lh, a) ==
    IF a.ret # RET_OK THEN read_header_done(c, io, lh, a)
    ELSE read_header_second(c, io, lh,
             entries_add_r(a.seg, ENTRY_TYPE_RAMDISK,
                           ramdisk_offset(c, lh.page_size),
                           c.hdr.ramdisk_size, FALSE))

\* a table that is not cleared before the entries are added (C28 must tell
\* it from the code)
read_header_entries_kept(c, io, sh) ==
    IF sh.ret # RET_OK THEN HeaderRead(sh.ret, c, io, sh.header, TRUE)
    ELSE read_header_ramdisk(c, io, sh.header,
             entries_add_r(c.seg, ENTRY_TYPE_KERNEL,
                           kernel_offset(c, sh.header.page_size),
                           c.hdr.kernel_size, FALSE))

\* sh is the result of android_set_header
read_header_entries(c, io, sh) ==
    IF sh.ret # RET_OK THEN HeaderRead(sh.ret, c, io, sh.header, TRUE)
    ELSE read_header_ramdisk(c, io, sh.header,
             entries_add_r(<<>>, ENTRY_TYPE_KERNEL,
                           kernel_offset(c, sh.header.page_size),
                           c.hdr.kernel_size, FALSE))

\* c holds the lh
read_header_set(c, io) ==
    read_header_entries(c, io, android_set_header(c.hdr))

\* h is the result of find_android_header
read_header_found(c, h) ==
    IF h.ret < 0 THEN HeaderRead(h.ret, c, h.io, NoHeader, FALSE)
    ELSE read_header_set(CtxWithHeader(c, h), h.io)

\* a read_header that searches the file every time (C22 must tell it from
\* the code)
android_reader_read_header_rescan(c, f, io) ==
    read_header_found(
        c, find_android_header(f, MAX_HEADER_OFFSET, io, c.hdr,
                               c.header_offset))

android_reader_read_header(c, f, io) ==
    IF ~c.have_header_offset
    THEN read_header_found(
             c, find_android_header(f, MAX_HEADER_OFFSET, io, c.hdr,
                                    c.header_offset))
    ELSE read_header_set(c, io)

----------------------------------------------------------------------------
(* Format registration and the probe dispatcher of the Reader facade       *)

InSeq(x, q) == \E i \in 1..Len(q) : q[i] = x

\* mb_bi_reader_enable_format_android: a new context that allows a truncated
\* device tree, registered unless the format is already enabled
mb_bi_reader_enable_format_android(fmts, cs) ==
    IF InSeq("android", fmts)
    THEN [ret |-> RET_WARN, formats |-> fmts, ctx |-> cs]
    ELSE [ret |-> RET_OK, formats |-> Append(fmts, "android"),
          ctx |-> [cs EXCEPT !["android"] =
                      [NewCtx EXCEPT !.allow_truncated_dt = TRUE]]]

mb_bi_reader_enable_format_bump(fmts, cs) ==
    IF InSeq("bump", fmts)
    THEN [ret |-> RET_WARN, formats |-> fmts, ctx |-> cs]
    ELSE [ret |-> RET_OK, formats |-> Append(fmts, "bump"),
          ctx |-> [cs EXCEPT !["bump"] = NewCtx]]

bidder_cb(codec, c, f, best_bid, io) ==
    IF codec = "android" THEN android_reader_bid(c, f, best_bid, io)
    ELSE bump_reader_bid(c, f, best_bid, io)

NoBid == [called |-> FALSE, ret |-> 0]
NoBids == [k \in {"android", "bump"} |-> NoBid]

\* the dispatcher's state once codec k has returned r
Bidden(st, k, r) ==
    [st EXCEPT !.ctx[k] = r.ctx, !.io = r.io,
               !.bids[k] = [called |-> TRUE, ret |-> r.ret]]

\* One pass over the registered codecs from index i on.  st carries the best
\* bid so far, the codec that made it, the contexts, the io record, the bids.
RECURSIVE RunBids(_, _, _, _)
RECURSIVE AfterBid(_, _, _, _, _)
RunBids(fmts, f, i, st) ==
    IF i > Len(fmts) THEN st
    ELSE AfterBid(fmts, f, i,
                  bidder_cb(fmts[i], st.ctx[fmts[i]], f, st.best, st.io), st)

AfterBid(fmts, f, i, r, st) ==
    IF r.ret > st.best
    THEN RunBids(fmts, f, i + 1,
                 [Bidden(st, fmts[i], r) EXCEPT !.best = r.ret,
                                                !.selected = fmts[i]])
    ELSE IF r.ret = RET_WARN
    THEN RunBids(fmts, f, i + 1, Bidden(st, fmts[i], r))
    ELSE IF r.ret < 0 THEN [Bidden(st, fmts[i], r) EXCEPT !.ret = r.ret]
    ELSE RunBids(fmts, f, i + 1, Bidden(st, fmts[i], r))

ProbeResult(st) ==
    IF st.ret # RET_OK THEN [st EXCEPT !.selected = "none"]
    ELSE IF st.selected = "none" THEN [st EXCEPT !.ret = RET_WARN]
    ELSE st

ProbeDispatch(fmts, cs, f, io) ==
    ProbeResult(RunBids(fmts, f, 1,
                        [best |-> 0, selected |-> "none", ctx |-> cs,
                         io |-> io, bids |-> NoBids, ret |-> RET_OK]))

----------------------------------------------------------------------------
(* The image files a Reader is opened on *)

MaxFailAt == 20

DiskHeaders ==
    { [page_size |-> 2048, kernel_size |-> 100, ramdisk_size |-> 50,
       second_size |-> 0, dt_size |-> 0],
      [page_size |-> 2048, kernel_size |-> 100, ramdisk_size |-> 50,
       second_size |-> 10, dt_size |-> 20],
      [page_size |-> 4096, kernel_size |-> 4096, ramdisk_size |-> 50,
       second_size |-> 0, dt_size |-> 20],
      [page_size |-> 0, kernel_size |-> 100, ramdisk_size |-> 50,
       second_size |-> 0, dt_size |-> 20],
      [page_size |-> 3000, kernel_size |-> 100, ramdisk_size |-> 50,
       second_size |-> 10, dt_size |-> 0],
      [page_size |-> 512, kernel_size |-> 100, ramdisk_size |-> 50,
       second_size |-> 0, dt_size |-> 0] }

S1Header ==
    [page_size |-> 2048, kernel_size |-> 100, ramdisk_size |-> 50,
     second_size |-> 0, dt_size |-> 0]

RoundUp(x, p) == IF p = 0 THEN x ELSE ((x + p - 1) \div p) * p

\* the tail offset of the format: the header page, then every section
\* rounded up to the page size
TailOffset(h) ==
    RoundUp(RoundUp(RoundUp(RoundUp(h.page_size + h.kernel_size, h.page_size)
      + h.ramdisk_size, h.page_size) + h.second_size, h.page_size)
      + h.dt_size, h.page_size)

Image(sz, ms, h, tl) == [size |-> sz, magic |-> ms, hdr |-> h, tail |-> tl]
NoTail(h) == [kind |-> "none", off |-> TailOffset(h)]
Trailer(h, kind, shift) == [kind |-> kind, off |-> TailOffset(h) + shift]

\* images whose header is at offset 0: with no trailer, with a trailer at the
\* tail offset and, for the first header, with a trailer cut after 8 bytes
\* or lying 16 bytes later
ImagesAtZero ==
    UNION { {Image(TailOffset(h), {0}, h, NoTail(h))} \cup
            {Image(TailOffset(h) + 16, {0}, h, Trailer(h, k, 0)) :
                k \in {"samsung", "bump"}} :
            h \in {d \in DiskHeaders : d.page_size \in {2048, 4096}} }
    \cup UNION { {Image(TailOffset(S1Header) + 8, {0}, S1Header,
                        Trailer(S1Header, k, 0)),
                  Image(TailOffset(S1Header) + 32, {0}, S1Header,
                        Trailer(S1Header, k, 16))} :
                 k \in {"samsung", "bump"} }

\* images whose header holds a page size that is none of the seven page
\* sizes of the format; with a
\* page size of 0 the tail offset lies inside the header's 608 bytes
ImagesOddPage ==
    UNION { {Image(Max(SizeofAndroidHeader, TailOffset(h)), {0}, h, NoTail(h)),
             Image(Max(SizeofAndroidHeader, TailOffset(h) + 16), {0}, h,
                   Trailer(h, "samsung", 0))} :
            h \in {d \in DiskHeaders : d.page_size \notin {2048, 4096}} }

\* images with the magic elsewhere, nowhere or twice, and headers cut short
ImagesElsewhere ==
    { Image(TailOffset(S1Header), ms, S1Header, NoTail(S1Header)) :
        ms \in {{}, {512}, {513}, {100, 300}} }
    \cup { Image(TailOffset(S1Header) + 16, {512}, S1Header,
                 Trailer(S1Header, "samsung", 0)) }
    \cup { Image(o + SizeofAndroidHeader - 1, {o}, S1Header, NoTail(S1Header)) :
            o \in {0, 512} }

\* the S1 image, and one with a second bootloader and a device tree
OptionImages ==
    { Image(TailOffset(h), {0}, h, NoTail(h)) :
        h \in {d \in DiskHeaders : d.page_size = 2048} }

Images == ImagesAtZero \cup ImagesOddPage \cup ImagesElsewhere
DetectImages == ImagesAtZero \cup {i \in ImagesElsewhere : i.magic = {}}

----------------------------------------------------------------------------
(* mtk_writer.cpp: write_header *)

\* A char array of the C struct: its size and its bytes up to the last one
\* that is not zero; every byte after them is zero.
CharArray(size, bytes) == [size |-> size, bytes |-> bytes]
ByteAt(a, i) == IF i <= Len(a.bytes) THEN a.bytes[i] ELSE 0

RECURSIVE TrimZeros(_)
TrimZeros(s) ==
    IF s = <<>> THEN s
    ELSE IF s[Len(s)] # 0 THEN s
    ELSE TrimZeros(SubSeq(s, 1, Len(s) - 1))

\* memset(a, 0, sizeof(a))
memset0(size) == CharArray(size, <<>>)

ZeroAndroidHeader ==
    [magic |-> "", kernel_size |-> U64(0), kernel_addr |-> 0,
     ramdisk_size |-> U64(0), ramdisk_addr |-> 0, second_size |-> U64(0),
     second_addr |-> 0, tags_addr |-> 0, page_size |-> 0, dt_size |-> U64(0),
     id |-> <<>>, name |-> memset0(SizeofName),
     cmdline |-> memset0(SizeofCmdline)]

NewWriterCtx ==
    [hdr |-> ZeroAndroidHeader, seg |-> <<>>, cur |-> 0, entry_size |-> U64(0),
     have_file_size |-> FALSE, file_size |-> U64(0)]

\* std::string::size()
StrSize(str) == Len(str)

\* strlen(str.c_str()): the characters before the first NUL
CStrLen(str) ==
    IF \E i \in 1..Len(str) : str[i] = 0
    THEN SetMin({i \in 1..Len(str) : str[i] = 0}) - 1
    ELSE Len(str)

\* a[i] = b, with i counted from 1
SetByte(a, i, b) ==
    IF b = 0 /\ i > Len(a.bytes) THEN a
    ELSE [a EXCEPT !.bytes =
              TrimZeros([j \in 1..Max(i, Len(a.bytes)) |->
                            IF j = i THEN b ELSE ByteAt(a, j)])]

\* strncpy writes n bytes: the first len characters of str, then zeros
strncpy_len(a, str, len, n) ==
    [a EXCEPT !.bytes =
         TrimZeros([i \in 1..Max(Min(len, n), Len(a.bytes)) |->
                       IF i > n THEN ByteAt(a, i)
                       ELSE IF i <= len THEN str[i] ELSE 0])]

\* a copy of all of the std::string, NULs included (C10 must tell it from
\* the code)
strncpy_all(a, str, n) == strncpy_len(a, str, Len(str), n)

\* strncpy(a, str.c_str(), n)
strncpy(a, str, n) == strncpy_len(a, str, CStrLen(str), n)

\* strncpy(field, s.c_str(), sizeof(field) - 1); field[sizeof(field) - 1] = 0
CopyField(a, str) == SetByte(strncpy(a, str, a.size - 1), a.size, 0)

\* SegmentWriter::entries_clear(): the table is emptied, the cursor is back
\* before the first entry
entries_clear(c) == [c EXCEPT !.seg = <<>>, !.cur = 0]

\* SegmentWriter::entries_add(type, size, can_truncate, align)
entries_add_w(seg, type, size, can_truncate, align) ==
    IF type \in SegTypes(seg)
    THEN [ret |-> RET_UNSUPPORTED, seg |-> seg]
    ELSE IF align # 0 /\ ~IsPow2(align)
    THEN [ret |-> RET_FAILED, seg |-> seg]
    ELSE [ret |-> RET_OK,
          seg |-> Append(seg, [type |-> type, offset |-> U64(0),
                               size |-> U64(size),
                               can_truncate |-> can_truncate, align |-> align])]

\* the page sizes without the largest (C9 must tell it from the code)
ValidPageSizes_short == {2048, 4096, 8192, 16384, 32768, 65536}
ValidPageSizes == {2048, 4096, 8192, 16384, 32768, 65536, 131072}

\* ctx->hdr after memset, the magic and the four load addresses
HdrWithAddresses(hd) ==
    [ZeroAndroidHeader EXCEPT
        !.magic = "ANDROID!",
        !.kernel_addr = IF hd.kernel_address.has THEN hd.kernel_address.val ELSE 0,
        !.ramdisk_addr = IF hd.ramdisk_address.has THEN hd.ramdisk_address.val ELSE 0,
        !.second_addr = IF hd.secondboot_address.has
                        THEN hd.secondboot_address.val ELSE 0,
        !.tags_addr = IF hd.kernel_tags_address.has
                      THEN hd.kernel_tags_address.val ELSE 0]

\* entries that may be truncated (C23 must tell it from the code)
AddNext_truncatable(a, type, align) ==
    IF a.ret # RET_OK THEN a
    ELSE entries_add_w(a.seg, type, 0, TRUE, align)

\* the next entries_add, unless an earlier one failed
AddNext(a, type, align) ==
    IF a.ret # RET_OK THEN a
    ELSE entries_add_w(a.seg, type, 0, FALSE, align)

\* the sub-headers aligned like the payloads (C14 must tell it from the
\* code)
MtkEntries_aligned(page_size) ==
    AddNext(
        AddNext(
            AddNext(
                AddNext(
                    AddNext(
                        entries_add_w(<<>>, ENTRY_TYPE_MTK_KERNEL_HEADER, 0,
                                      FALSE, page_size),
                        ENTRY_TYPE_KERNEL, page_size),
                    ENTRY_TYPE_MTK_RAMDISK_HEADER, page_size),
                ENTRY_TYPE_RAMDISK, page_size),
            ENTRY_TYPE_SECONDBOOT, page_size),
        ENTRY_TYPE_DEVICE_TREE, page_size)

\* the six entries_add calls, starting from the cleared table
MtkEntries(page_size) ==
    AddNext(
        AddNext(
            AddNext(
                AddNext(
                    AddNext(
                        entries_add_w(<<>>, ENTRY_TYPE_MTK_KERNEL_HEADER, 0,
                                      FALSE, 0),
                        ENTRY_TYPE_KERNEL, page_size),
                    ENTRY_TYPE_MTK_RAMDISK_HEADER, 0),
                ENTRY_TYPE_RAMDISK, page_size),
            ENTRY_TYPE_SECONDBOOT, page_size),
        ENTRY_TYPE_DEVICE_TREE, page_size)

Written(r, err, c, io) == [ret |-> r, err |-> err, ctx |-> c, io |-> io]

\* s is the io record the seek leaves
write_header_done(c, s) ==
    IF s.failed THEN Written(FileErr(s), "IO", c, s)
    ELSE Written(RET_OK, "NONE", c, s)

\* the first entry right after the header's bytes (C15 must tell it from
\* the code)
write_header_seek_after_header(c, h, io, es) ==
    IF es.ret # RET_OK
    THEN Written(es.ret, "SEGMENT", [c EXCEPT !.hdr = h, !.seg = es.seg], io)
    ELSE write_header_done([c EXCEPT !.hdr = h, !.seg = es.seg],
                           file_seek(io, U64(SizeofAndroidHeader)))

\* es is the result of the entries_add calls
write_header_seek(c, h, io, es) ==
    IF es.ret # RET_OK
    THEN Written(es.ret, "SEGMENT", [c EXCEPT !.hdr = h, !.seg = es.seg], io)
    ELSE write_header_done([c EXCEPT !.hdr = h, !.seg = es.seg],
                           file_seek(io, U64(h.page_size)))

write_header_entries(c, h, io) ==
    write_header_seek(entries_clear(c), h, io, MtkEntries(h.page_size))

\* h is ctx->hdr so far
write_header_cmdline(c, hd, h, io) ==
    IF hd.kernel_cmdline.has
    THEN IF StrSize(hd.kernel_cmdline.val) >= h.cmdline.size
         THEN Written(RET_FAILED, "FILE_FORMAT", [c EXCEPT !.hdr = h], io)
         ELSE write_header_entries(
                  c, [h EXCEPT !.cmdline = CopyField(h.cmdline,
                                                     hd.kernel_cmdline.val)], io)
    ELSE write_header_entries(c, h, io)

\* a board name that is too long empties the table (C29 must tell it from
\* the code)
write_header_name_cleared(c, hd, h, io) ==
    IF hd.board_name.has
    THEN IF StrSize(hd.board_name.val) >= h.name.size
         THEN Written(RET_FAILED, "FILE_FORMAT",
                      entries_clear([c EXCEPT !.hdr = h]), io)
         ELSE write_header_cmdline(
                  c, hd, [h EXCEPT !.name = CopyField(h.name, hd.board_name.val)], io)
    ELSE write_header_cmdline(c, hd, h, io)

write_header_name(c, hd, h, io) ==
    IF hd.board_name.has
    THEN IF StrSize(hd.board_name.val) >= h.name.size
         THEN Written(RET_FAILED, "FILE_FORMAT", [c EXCEPT !.hdr = h], io)
         ELSE write_header_cmdline(
                  c, hd, [h EXCEPT !.name = CopyField(h.name, hd.board_name.val)], io)
    ELSE write_header_cmdline(c, hd, h, io)

write_header_page_size(c, hd, h, io) ==
    IF hd.page_size.has
    THEN IF hd.page_size.val \in ValidPageSizes
         THEN write_header_name(c, hd, [h EXCEPT !.page_size = hd.page_size.val],
                                io)
         ELSE Written(RET_FAILED, "FILE_FORMAT", [c EXCEPT !.hdr = h], io)
    ELSE Written(RET_FAILED, "FILE_FORMAT", [c EXCEPT !.hdr = h], io)

mtk_writer_write_header(c, hd, io) ==
    write_header_page_size(c, hd, HdrWithAddresses(hd), io)

----------------------------------------------------------------------------
(* The writer's file.  It is new and empty when the Writer opens it.  Its  *)
(* bytes are described by what was written:                                *)
(*   f.size     its length                                                 *)
(*   f.runs     the write_data writes, in file order: len bytes b at off   *)
(*   f.patches  the 4-byte little-endian values written at close           *)
(*   f.head     the AndroidHeader written at offset 0, if any              *)
(* A byte never written and below f.size is zero.  A later write replaces  *)
(* an earlier one where they overlap: patches lie over runs, the header    *)
(* over both.                                                              *)

NoHead == [has |-> FALSE, hdr |-> ZeroAndroidHeader]
NewFile == [size |-> U64(0), runs |-> <<>>, patches |-> {}, head |-> NoHead]

\* the io record of a writer call carries the file it writes
NewWio(pos, failAt, fatal, f) ==
    [n |-> 0, failAt |-> failAt, fatal |-> fatal, failed |-> FALSE,
     pos |-> pos, file |-> f]

MaxU(x, y) == IF Less(x, y) THEN y ELSE x

\* file.seek(skip, SEEK_CUR)
file_seek_cur(io, skip) ==
    IF io.n + 1 = io.failAt
    THEN [io EXCEPT !.n = @ + 1, !.failed = TRUE]
    ELSE [io EXCEPT !.n = @ + 1, !.pos = Add(@, skip)]

RunBytes(b, len) == [kind |-> "run", len |-> len, b |-> b, val |-> U64(0),
                     hdr |-> ZeroAndroidHeader]
Le32Bytes(val) == [kind |-> "le32", len |-> U64(4), b |-> 0, val |-> val,
                   hdr |-> ZeroAndroidHeader]
HeaderBytes(hdr) == [kind |-> "header", len |-> U64(SizeofAndroidHeader), b |-> 0,
                     val |-> U64(0), hdr |-> hdr]

\* the file after w is written at pos
WriteBytes(f, pos, w) ==
    [size |-> MaxU(f.size, Add(pos, w.len)),
     runs |-> IF w.kind = "run" /\ w.len # U64(0)
              THEN Append(f.runs, [off |-> pos, len |-> w.len, b |-> w.b])
              ELSE f.runs,
     patches |-> IF w.kind = "le32"
                 THEN {p \in f.patches : p.off # pos}
                      \cup {[off |-> pos, val |-> w.val]}
                 ELSE f.patches,
     head |-> IF w.kind = "header" THEN [has |-> TRUE, hdr |-> w.hdr]
              ELSE f.head]

\* file_write_fully: all of w is written, or the write fails
file_write_fully(io, w) ==
    IF io.n + 1 = io.failAt
    THEN [io EXCEPT !.n = @ + 1, !.failed = TRUE]
    ELSE [io EXCEPT !.n = @ + 1, !.pos = Add(@, w.len),
                    !.file = WriteBytes(@, io.pos, w)]

\* the part of a run that lies below size
CutRun(r, size) ==
    IF Leq(Add(r.off, r.len), size) THEN r
    ELSE [r EXCEPT !.len = Sub(size, r.off)]

RECURSIVE CutRuns(_, _)
CutRuns(runs, size) ==
    IF runs = <<>> THEN <<>>
    ELSE IF Less(runs[1].off, size)
    THEN <<CutRun(runs[1], size)>> \o CutRuns(Tail(runs), size)
    ELSE CutRuns(Tail(runs), size)

\* file.truncate(size): a longer file is cut, a shorter one grows by zeros
file_truncate(io, size) ==
    IF io.n + 1 = io.failAt
    THEN [io EXCEPT !.n = @ + 1, !.failed = TRUE]
    ELSE [io EXCEPT !.n = @ + 1,
                    !.file = [@ EXCEPT
                        !.size = size,
                        !.runs = CutRuns(@, size),
                        !.patches = {p \in @ : Leq(Add(p.off, U64(4)), size)}]]

\* the runs of bytes in [from, to), joined where the same byte goes on
RECURSIVE RunsIn(_, _, _, _)
RunsIn(runs, from, to, acc) ==
    IF runs = <<>> THEN acc
    ELSE IF Leq(from, runs[1].off) /\ Less(runs[1].off, to)
    THEN IF acc # <<>> /\ acc[Len(acc)].b = runs[1].b
         THEN RunsIn(Tail(runs), from, to,
                     [acc EXCEPT ![Len(acc)].len = Add(@, runs[1].len)])
         ELSE RunsIn(Tail(runs), from, to,
                     Append(acc, [b |-> runs[1].b, len |-> runs[1].len]))
    ELSE RunsIn(Tail(runs), from, to, acc)

\* the bytes of [from, to): the runs, and the patches by their place in it
BytesIn(f, from, to) ==
    [runs |-> RunsIn(f.runs, from, to, <<>>),
     patches |-> {[at |-> Sub(p.off, from), val |-> p.val] :
                    p \in {q \in f.patches :
                             Leq(from, q.off) /\ Less(q.off, to)}}]

\* how many of count bytes at pos the file holds
Readable(f, pos, count) ==
    IF Leq(f.size, pos) THEN U64(0)
    ELSE IF Leq(Add(pos, count), f.size) THEN count
    ELSE Sub(f.size, pos)

\* file_read_fully on the writer's file
file_read_back(io, count) ==
    IF io.n + 1 = io.failAt
    THEN [io |-> [io EXCEPT !.n = @ + 1, !.failed = TRUE], n |-> U64(0),
          data |-> BytesIn(io.file, io.pos, io.pos)]
    ELSE [io |-> [io EXCEPT !.n = @ + 1,
                            !.pos = Add(@, Readable(io.file, io.pos, count))],
          n |-> Readable(io.file, io.pos, count),
          data |-> BytesIn(io.file, io.pos,
                           Add(io.pos, Readable(io.file, io.pos, count)))]

----------------------------------------------------------------------------
(* The segment engine in writer mode: the table c.seg, the cursor c.cur    *)
(* (0 before the first entry, Len(c.seg) + 1 after the last) and the       *)
(* bytes written to the current entry, c.entry_size.                       *)

NullEntry ==
    [type |-> "null", offset |-> U64(0), size |-> U64(0),
     can_truncate |-> FALSE, align |-> 0]

\* SegmentWriter::entry(): the entry under the cursor, or null
entry(c) ==
    IF 1 <= c.cur /\ c.cur <= Len(c.seg) THEN c.seg[c.cur] ELSE NullEntry

\* SegmentWriter::get_entry: the cursor moves to the next entry, which
\* starts at the file's position
get_entry(c, io) ==
    IF c.cur >= Len(c.seg)
    THEN Written(RET_EOF, "NONE", [c EXCEPT !.cur = Len(c.seg) + 1], io)
    ELSE Written(RET_OK, "NONE",
                 [c EXCEPT !.cur = @ + 1, !.seg[c.cur + 1].offset = io.pos,
                           !.entry_size = U64(0)], io)

\* SegmentWriter::write_entry: the caller's size, if it gave one
write_entry(c, size, io) ==
    Written(RET_OK, "NONE",
            IF size.has THEN [c EXCEPT !.seg[c.cur].size = size.val] ELSE c, io)

\* s is the io record the write leaves, count the bytes it was given
write_data_done(c, s, count) ==
    IF s.failed THEN Written(FileErr(s), "IO", c, s)
    ELSE Written(RET_OK, "NONE", [c EXCEPT !.entry_size = Add(@, count)], s)

\* SegmentWriter::write_data: count bytes b
write_data(c, b, count, io) ==
    write_data_done(c, file_write_fully(io, RunBytes(b, count)), count)

\* s is the io record the seek leaves
finish_entry_done(c, s) ==
    IF s.failed THEN Written(FileErr(s), "IO", c, s)
    ELSE Written(RET_OK, "NONE", c, s)

\* c holds the entry's final size
finish_entry_align(c, io) ==
    IF entry(c).align > 0
    THEN finish_entry_done(
             c, file_seek_cur(io, U64(align_page_size(
                                          ModPage(io.pos, entry(c).align),
                                          entry(c).align))))
    ELSE Written(RET_OK, "NONE", c, io)

\* SegmentWriter::finish_entry: the size is the bytes written, and the
\* file moves on to the entry's alignment
finish_entry(c, io) ==
    finish_entry_align([c EXCEPT !.seg[c.cur].size = c.entry_size], io)

----------------------------------------------------------------------------
(* mtk_writer.cpp: get_entry, write_entry, write_data, finish_entry *)

mtk_writer_get_entry(c, io) == get_entry(c, io)

mtk_writer_write_entry(c, size, io) == write_entry(c, size, io)

mtk_writer_write_data(c, b, count, io) == write_data(c, b, count, io)

\* the switch on swentry->type
finish_entry_hdr(h, swentry) ==
    IF swentry.type = ENTRY_TYPE_KERNEL
    THEN [h EXCEPT !.kernel_size = Add32(swentry.size, U64(SizeofMtkHeader))]
    ELSE IF swentry.type = ENTRY_TYPE_RAMDISK
    THEN [h EXCEPT !.ramdisk_size = Add32(swentry.size, U64(SizeofMtkHeader))]
    ELSE IF swentry.type = ENTRY_TYPE_SECONDBOOT
    THEN [h EXCEPT !.second_size = ToU32(swentry.size)]
    ELSE IF swentry.type = ENTRY_TYPE_DEVICE_TREE
    THEN [h EXCEPT !.dt_size = ToU32(swentry.size)]
    ELSE h

\* a payload one byte longer than the largest (C11 must tell it from the
\* code)
finish_entry_check_above(c, swentry, io) ==
    IF swentry.type \in {ENTRY_TYPE_KERNEL, ENTRY_TYPE_RAMDISK}
       /\ Less(Sub(UINT32_MAX, U64(SizeofMtkHeader)), swentry.size)
    THEN Written(RET_FATAL, "FILE_FORMAT", c, io)
    ELSE IF swentry.type \in {ENTRY_TYPE_MTK_KERNEL_HEADER,
                              ENTRY_TYPE_MTK_RAMDISK_HEADER}
            /\ swentry.size # U64(SizeofMtkHeader)
    THEN Written(RET_FATAL, "FILE_FORMAT", c, io)
    ELSE Written(RET_OK, "NONE",
                 [c EXCEPT !.hdr = finish_entry_hdr(c.hdr, swentry)], io)

\* swentry is ctx->seg.entry() after the engine's finish_entry
finish_entry_check(c, swentry, io) ==
    IF swentry.type \in {ENTRY_TYPE_KERNEL, ENTRY_TYPE_RAMDISK}
       /\ swentry.size = Sub(UINT32_MAX, U64(SizeofMtkHeader))
    THEN Written(RET_FATAL, "FILE_FORMAT", c, io)
    ELSE IF swentry.type \in {ENTRY_TYPE_MTK_KERNEL_HEADER,
                              ENTRY_TYPE_MTK_RAMDISK_HEADER}
            /\ swentry.size # U64(SizeofMtkHeader)
    THEN Written(RET_FATAL, "FILE_FORMAT", c, io)
    ELSE Written(RET_OK, "NONE",
                 [c EXCEPT !.hdr = finish_entry_hdr(c.hdr, swentry)], io)

\* r is the result of the engine's finish_entry
finish_entry_engine(r) ==
    IF r.ret # RET_OK THEN r
    ELSE finish_entry_check(r.ctx, entry(r.ctx), r.io)

mtk_writer_finish_entry(c, io) == finish_entry_engine(finish_entry(c, io))

----------------------------------------------------------------------------
(* mtk_writer.cpp: close.  What SHA1 is fed is a sequence of items, the    *)
(* bytes of a segment or a 4-byte little-endian size; the digest is        *)
(* written Sha1(items), and two digests are equal exactly when the items   *)
(* fed are.  The read loop of a segment is one read of all its bytes: its  *)
(* chunks of 10240 bytes differ only in which of them a failure meets.     *)

Sha1(items) == [sha1 |-> items]

Updated(r, err, io) == [ret |-> r, err |-> err, io |-> io]

\* s is the io record the write leaves
update_size_done(s) ==
    IF s.failed THEN Updated(FileErr(s), "IO", s)
    ELSE Updated(RET_OK, "NONE", s)

\* s is the io record the seek leaves
update_size_write(s, size) ==
    IF s.failed THEN Updated(FileErr(s), "IO", s)
    ELSE update_size_done(file_write_fully(s, Le32Bytes(size)))

\* _mtk_header_update_size
mtk_header_update_size(io, offset, size) ==
    update_size_write(file_seek(io, Add(offset, U64(OffsetofMtkHeaderSize))),
                      size)

Hashed(r, err, io, items) ==
    [ret |-> r, err |-> err, io |-> io, items |-> items]

RECURSIVE sha1_entry(_, _, _, _, _, _)

\* a second bootloader of size 0 is given no size term, as a device tree of
\* size 0 is given none (C25 must tell it from the code)
sha1_size_second_skipped(seg, i, io, items, kh, rh) ==
    IF seg[i].type = ENTRY_TYPE_MTK_KERNEL_HEADER
    THEN sha1_entry(seg, i + 1, io, items, ToU32(seg[i].size), rh)
    ELSE IF seg[i].type = ENTRY_TYPE_MTK_RAMDISK_HEADER
    THEN sha1_entry(seg, i + 1, io, items, kh, ToU32(seg[i].size))
    ELSE IF seg[i].type = ENTRY_TYPE_KERNEL
    THEN sha1_entry(seg, i + 1, io,
                    Append(items, [le32 |-> Add32(seg[i].size, kh)]), kh, rh)
    ELSE IF seg[i].type = ENTRY_TYPE_RAMDISK
    THEN sha1_entry(seg, i + 1, io,
                    Append(items, [le32 |-> Add32(seg[i].size, rh)]), kh, rh)
    ELSE IF seg[i].type \in {ENTRY_TYPE_SECONDBOOT, ENTRY_TYPE_DEVICE_TREE}
    THEN IF seg[i].size = U64(0)
         THEN sha1_entry(seg, i + 1, io, items, kh, rh)
         ELSE sha1_entry(seg, i + 1, io,
                         Append(items, [le32 |-> ToU32(seg[i].size)]), kh, rh)
    ELSE sha1_entry(seg, i + 1, io, items, kh, rh)

\* the switch on entry->type; kh and rh are kernel_mtkhdr_size and
\* ramdisk_mtkhdr_size
sha1_size(seg, i, io, items, kh, rh) ==
    IF seg[i].type = ENTRY_TYPE_MTK_KERNEL_HEADER
    THEN sha1_entry(seg, i + 1, io, items, ToU32(seg[i].size), rh)
    ELSE IF seg[i].type = ENTRY_TYPE_MTK_RAMDISK_HEADER
    THEN sha1_entry(seg, i + 1, io, items, kh, ToU32(seg[i].size))
    ELSE IF seg[i].type = ENTRY_TYPE_KERNEL
    THEN sha1_entry(seg, i + 1, io,
                    Append(items, [le32 |-> Add32(seg[i].size, kh)]), kh, rh)
    ELSE IF seg[i].type = ENTRY_TYPE_RAMDISK
    THEN sha1_entry(seg, i + 1, io,
                    Append(items, [le32 |-> Add32(seg[i].size, rh)]), kh, rh)
    ELSE IF seg[i].type = ENTRY_TYPE_SECONDBOOT
    THEN sha1_entry(seg, i + 1, io,
                    Append(items, [le32 |-> ToU32(seg[i].size)]), kh, rh)
    ELSE IF seg[i].type = ENTRY_TYPE_DEVICE_TREE
    THEN IF seg[i].size = U64(0)
         THEN sha1_entry(seg, i + 1, io, items, kh, rh)
         ELSE sha1_entry(seg, i + 1, io,
                         Append(items, [le32 |-> ToU32(seg[i].size)]), kh, rh)
    ELSE sha1_entry(seg, i + 1, io, items, kh, rh)

\* r is the result of the read
sha1_read(seg, i, r, items, kh, rh) ==
    IF r.io.failed THEN Hashed(FileErr(r.io), "IO", r.io, items)
    ELSE IF r.n # seg[i].size THEN Hashed(RET_FAILED, "IO", r.io, items)
    ELSE sha1_size(seg, i, r.io, Append(items, [bytes |-> r.data]), kh, rh)

\* the device tree's bytes are left out (C18 must tell it from the code)
sha1_seek_no_dt(seg, i, s, items, kh, rh) ==
    IF s.failed THEN Hashed(FileErr(s), "IO", s, items)
    ELSE IF seg[i].size = U64(0) \/ seg[i].type = ENTRY_TYPE_DEVICE_TREE
    THEN sha1_size(seg, i, s, items, kh, rh)
    ELSE sha1_read(seg, i, file_read_back(s, seg[i].size), items, kh, rh)

\* s is the io record the seek leaves
sha1_seek(seg, i, s, items, kh, rh) ==
    IF s.failed THEN Hashed(FileErr(s), "IO", s, items)
    ELSE IF seg[i].size = U64(0) THEN sha1_size(seg, i, s, items, kh, rh)
    ELSE sha1_read(seg, i, file_read_back(s, seg[i].size), items, kh, rh)

\* the loop of _mtk_compute_sha1, from entry i on
sha1_entry(seg, i, io, items, kh, rh) ==
    IF i > Len(seg) THEN Hashed(RET_OK, "NONE", io, items)
    ELSE sha1_seek(seg, i, file_seek(io, seg[i].offset), items, kh, rh)

\* _mtk_compute_sha1
mtk_compute_sha1(seg, io) == sha1_entry(seg, 1, io, <<>>, U64(0), U64(0))

\* s is the io record the write of the header leaves
close_written(c, s) ==
    IF s.failed THEN Written(FileErr(s), "IO", c, s)
    ELSE Written(RET_OK, "NONE", c, s)

\* s is the io record the seek to the beginning leaves
close_header(c, s) ==
    IF s.failed THEN Written(FileErr(s), "IO", c, s)
    ELSE close_written(c, file_write_fully(s, HeaderBytes(c.hdr)))

\* the digest is computed and dropped (C17 must tell it from the code)
close_sha1_dropped(c, d) ==
    IF d.ret # RET_OK THEN Written(d.ret, d.err, c, d.io)
    ELSE close_header(c, file_seek(d.io, U64(0)))

\* d is the result of _mtk_compute_sha1
close_sha1(c, d) ==
    IF d.ret # RET_OK THEN Written(d.ret, d.err, c, d.io)
    ELSE close_header([c EXCEPT !.hdr.id = Sha1(d.items)],
                      file_seek(d.io, U64(0)))

RECURSIVE close_sizes(_, _, _)

\* a size field that could not be written is passed over (C24 must tell it
\* from the code)
close_size_updated_passed(c, i, u) ==
    close_sizes(c, i + 1, [u.io EXCEPT !.failed = FALSE])

\* u is the result of _mtk_header_update_size for entry i
close_size_updated(c, i, u) ==
    IF u.ret # RET_OK THEN Written(u.ret, u.err, c, u.io)
    ELSE close_sizes(c, i + 1, u.io)

\* the loop over the entries, from entry i on, and what follows it
close_sizes(c, i, io) ==
    IF i > Len(c.seg) THEN close_sha1(c, mtk_compute_sha1(c.seg, io))
    ELSE IF c.seg[i].type = ENTRY_TYPE_MTK_KERNEL_HEADER
    THEN close_size_updated(
             c, i, mtk_header_update_size(
                       io, c.seg[i].offset,
                       Sub32(c.hdr.kernel_size, U64(SizeofMtkHeader))))
    ELSE IF c.seg[i].type = ENTRY_TYPE_MTK_RAMDISK_HEADER
    THEN close_size_updated(
             c, i, mtk_header_update_size(
                       io, c.seg[i].offset,
                       Sub32(c.hdr.ramdisk_size, U64(SizeofMtkHeader))))
    ELSE close_sizes(c, i + 1, io)

\* s is the io record the truncate leaves
close_truncated(c, s) ==
    IF s.failed THEN Written(FileErr(s), "IO", c, s)
    ELSE close_sizes(c, 1, s)

\* a close that finalizes whatever the cursor is on (C27 must tell it from
\* the code)
close_finish_always(c, io) ==
    close_truncated(c, file_truncate(io, c.file_size))

\* ctx->file_size is known
close_finish(c, io) ==
    IF entry(c).type # "null" THEN Written(RET_OK, "NONE", c, io)
    ELSE close_truncated(c, file_truncate(io, c.file_size))

\* s is the io record seek(0, SEEK_CUR) leaves
close_file_size(c, s) ==
    IF s.failed THEN Written(FileErr(s), "IO", c, s)
    ELSE close_finish([c EXCEPT !.have_file_size = TRUE, !.file_size = s.pos], s)

\* a close that asks for the file's length every time (C26 must tell it
\* from the code)
mtk_writer_close_requery(c, io) ==
    close_file_size(c, file_seek_cur(io, U64(0)))

mtk_writer_close(c, io) ==
    IF ~c.have_file_size THEN close_file_size(c, file_seek_cur(io, U64(0)))
    ELSE close_finish(c, io)


----------------------------------------------------------------------------
(* The calls a caller can make *)

\* which file operation of a call fails, if any, and the file's fatal bit;
\* ops is the largest number of file operations the call can make
Failures(ops) == {<<0, FALSE>>} \cup ((1..Min(ops, MaxFailAt)) \X BOOLEAN)

BestBids == {0, 191, 192, 193}
\* the best_bid and the failure given to a direct bid call
BidCalls ==
    {<<b, 0, FALSE>> : b \in BestBids}
    \cup {<<0, fl[1], fl[2]>> : fl \in Failures(4)}
    \cup {<<192, 1, TRUE>>}

S_STRICT == <<83, 84, 82, 73, 67, 84>>
S_foo == <<102, 111, 111>>
OptionValues ==
    { S_true, <<84, 82, 85, 69>>, <<116, 82, 117, 69>>,      \* true TRUE tRuE
      S_yes, <<89, 101, 83>>, S_y, <<89>>, S_1,              \* yes YeS y Y 1
      <<48>>, <<102, 97, 108, 115, 101>>, <<>>,             \* 0 false ""
      <<49, 49>>, <<116, 114, 117>> }                        \* 11 tru
\* every value with the key "strict"; other keys with two of the values
OptionCalls ==
    ({S_strict} \X OptionValues) \cup ({S_STRICT, S_foo, <<>>} \X {S_true})

\* what is kept of a call: its name, the number of file operations it made
\* and, for a probe, each codec's bid and the codec selected
NoArgs == [best_bid |-> 0, key |-> <<>>, value |-> <<>>]
BidArg(best_bid) == [NoArgs EXCEPT !.best_bid = best_bid]
OptionArgs(key, value) == [NoArgs EXCEPT !.key = key, !.value = value]
Call(op, args, io, bids, selected) ==
    [op |-> op, args |-> args, n |-> io.n, failed |-> io.failed,
     fatal |-> io.failed /\ io.fatal, bids |-> bids, selected |-> selected]

NoIo == NewIo(0, 0, FALSE)
Absent == [has |-> FALSE, val |-> 0]
Some(v) == [has |-> TRUE, val |-> v]
Str(n, ch) == [i \in 1..n |-> ch]

PageSizeInputs ==
    {Absent} \cup {Some(p) : p \in ValidPageSizes \cup {0, 3000, 262144}}
AddressNone == [k |-> Absent, r |-> Absent, s |-> Absent, t |-> Absent]
AddressInputs ==
    { AddressNone,
      [k |-> Some(32768), r |-> Some(16777216), s |-> Some(15728640),
       t |-> Some(256)],
      [k |-> Some(32768), r |-> Absent, s |-> Some(15728640), t |-> Absent] }
BoardNameInputs ==
    {Absent, Some(<<116, 101, 115, 116>>), Some(<<>>),
     Some(Str(15, 97)), Some(Str(16, 97)), Some(Str(17, 97)),
     Some(<<97, 98, 0, 99, 100>>)}
CmdlineInputs ==
    {Absent, Some(<<>>), Some(Str(511, 99)),
     Some(Str(512, 99)), Some(Str(513, 99))}

MkHeader(p, a, b, c) ==
    [page_size |-> p, kernel_address |-> a.k, ramdisk_address |-> a.r,
     secondboot_address |-> a.s, kernel_tags_address |-> a.t,
     board_name |-> b, kernel_cmdline |-> c]

AllAddresses ==
    [k |-> Some(32768), r |-> Some(16777216), s |-> Some(15728640),
     t |-> Some(256)]
NameTest == Some(<<116, 101, 115, 116>>)

\* the logical headers given to write_header: scenario S3's header with
\* one field varied at a time, and some with two fields out of range
HeaderInputs ==
    {MkHeader(p, AllAddresses, NameTest, Some(<<>>)) : p \in PageSizeInputs}
    \cup {MkHeader(Some(2048), a, NameTest, Some(<<>>)) : a \in AddressInputs}
    \cup {MkHeader(Some(4096), AllAddresses, b, Some(<<>>)) : b \in BoardNameInputs}
    \cup {MkHeader(Some(2048), AllAddresses, NameTest, c) : c \in CmdlineInputs}
    \cup {MkHeader(p, AllAddresses, Some(Str(16, 97)), Some(Str(512, 99))) :
            p \in {Absent, Some(8192)}}
    \cup {MkHeader(Some(131072), AllAddresses, Some(Str(15, 97)),
                   Some(Str(511, 99)))}

\* the logical headers of the "stream" Writer: scenario S3's, and one with
\* another page size and no board name
StreamHeaders ==
    { MkHeader(Some(2048), AllAddresses, NameTest, Some(<<>>)),
      MkHeader(Some(4096), AllAddresses, Absent, Some(<<>>)) }

NoHeaderInput == MkHeader(Absent, AddressNone, Absent, Absent)
NoData == [b |-> 0, count |-> U64(0), size |-> Absent]
NoWio == NewWio(U64(0), 0, FALSE, NewFile)

\* the record of a writer call: the arguments, the file operations it made,
\* whether one failed and the file's fatal bit when it did
WCall(op, hd, data, io) ==
    [op |-> op, header |-> hd, data |-> data, n |-> io.n,
     failed |-> io.failed, fatal |-> io.failed /\ io.fatal]

\* where the Writer is after a call: on after RET_OK, unusable after
\* RET_FATAL, where it was after anything else
After(r, on, stay) ==
    IF r = RET_OK THEN on ELSE IF r = RET_FATAL THEN "fatal" ELSE stay

Data(b, count) == [b |-> b, count |-> count]

\* the sizes a caller gives to write_entry: none, or 1024 for a kernel
SizeInputs == {Absent, Some(U64(1024))}
SizeInputsFor(type) ==
    IF type = ENTRY_TYPE_KERNEL THEN SizeInputs ELSE {Absent}

\* the data a caller writes to an entry of which it has written entry_size
\* bytes: scenario S3's sub-headers and payloads, whole or in two parts, and
\* payloads that end at, or one byte above, UINT32_MAX - sizeof(MtkHeader)
DataInputs(type, entry_size) ==
    IF type \in {ENTRY_TYPE_MTK_KERNEL_HEADER, ENTRY_TYPE_MTK_RAMDISK_HEADER}
    THEN IF entry_size = U64(0)
         THEN {Data(136, U64(SizeofMtkHeader)), Data(136, U64(100))}
         ELSE IF entry_size = U64(100) THEN {Data(136, U64(412))}
         ELSE {}
    ELSE IF type = ENTRY_TYPE_KERNEL
    THEN IF entry_size = U64(0)
         THEN {Data(170, U64(1024)), Data(171, U64(1024)),
               Data(170, Sub(UINT32_MAX, U64(SizeofMtkHeader)))}
         ELSE IF entry_size = U64(1024) THEN {Data(170, U64(1024))}
         ELSE IF entry_size = Sub(UINT32_MAX, U64(SizeofMtkHeader))
         THEN {Data(170, U64(1))}
         ELSE {}
    ELSE IF type = ENTRY_TYPE_RAMDISK
    THEN IF entry_size = U64(0)
         THEN {Data(187, U64(2048)),
               Data(187, Sub(UINT32_MAX, U64(SizeofMtkHeader)))}
         ELSE {}
    ELSE IF type = ENTRY_TYPE_SECONDBOOT
    THEN IF entry_size = U64(0) THEN {Data(204, U64(300))} ELSE {}
    ELSE IF type = ENTRY_TYPE_DEVICE_TREE
    THEN IF entry_size = U64(0) THEN {Data(221, U64(20))} ELSE {}
    ELSE {}

AllDataInputs ==
    UNION { DataInputs(t, e) :
              t \in {ENTRY_TYPE_MTK_KERNEL_HEADER, ENTRY_TYPE_KERNEL,
                     ENTRY_TYPE_RAMDISK, ENTRY_TYPE_SECONDBOOT,
                     ENTRY_TYPE_DEVICE_TREE},
              e \in {U64(0), U64(100), U64(1024),
                     Sub(UINT32_MAX, U64(SizeofMtkHeader))} }

Init ==
    /\ facade \in {"reader", "options", "detect", "writer", "stream"}
    /\ file \in (IF facade = "reader" THEN Images
                 ELSE IF facade = "options" THEN OptionImages
                 ELSE IF facade = "detect" THEN DetectImages
                 ELSE {Image(0, {}, ZeroHdr, NoTail(ZeroHdr))})
    /\ align0 \in (IF facade = "reader" /\ file.hdr.page_size = 0
                   THEN {"none", "wrap"} ELSE {"wrap"})
    /\ fpos = 0
    /\ formats = <<>>
    /\ ctx = [k \in {"android", "bump"} |-> NewCtx]
    /\ header = NoHeader
    /\ last = Call("none", NoArgs, NoIo, NoBids, "none")
    /\ ret = RET_OK
    /\ wctx = NewWriterCtx
    /\ wfile = NewFile
    /\ wpos = U64(0)
    /\ wstate = "header"
    /\ wdata = <<>>
    /\ wlast = WCall("none", NoHeaderInput, NoData, NoWio)
    /\ wret = RET_OK
    /\ werr = "NONE"

EnableAndroid ==
    /\ facade \in {"reader", "options", "detect"}
    /\ LET r == mb_bi_reader_enable_format_android(formats, ctx)
       IN  /\ formats' = r.formats
           /\ ctx' = r.ctx
           /\ ret' = r.ret
           /\ last' = Call("enable_android", NoArgs, NoIo, NoBids, "none")
    /\ UNCHANGED <<align0, facade, file, fpos, header>>
    /\ UNCHANGED wvars

EnableBump ==
    /\ facade = "detect"
    /\ LET r == mb_bi_reader_enable_format_bump(formats, ctx)
       IN  /\ formats' = r.formats
           /\ ctx' = r.ctx
           /\ ret' = r.ret
           /\ last' = Call("enable_bump", NoArgs, NoIo, NoBids, "none")
    /\ UNCHANGED <<align0, facade, file, fpos, header>>
    /\ UNCHANGED wvars

SetOption(key, value) ==
    /\ facade = "options"
    /\ InSeq("android", formats)
    /\ LET r == android_reader_set_option(ctx["android"], key, value)
       IN  /\ ctx' = [ctx EXCEPT !["android"] = r.ctx]
           /\ ret' = r.ret
           /\ last' = Call("set_option", OptionArgs(key, value), NoIo, NoBids, "none")
    /\ UNCHANGED <<align0, facade, file, fpos, formats, header>>
    /\ UNCHANGED wvars

AndroidBid(best_bid, failAt, fatal) ==
    /\ facade \in {"reader", "options"}
    /\ InSeq("android", formats)
    /\ LET r == android_reader_bid(ctx["android"], file, best_bid,
                                   NewIo(fpos, failAt, fatal))
       IN  /\ ctx' = [ctx EXCEPT !["android"] = r.ctx]
           /\ ret' = r.ret
           /\ fpos' = r.io.pos
           /\ last' = Call("android_bid", BidArg(best_bid), r.io, NoBids, "none")
    /\ UNCHANGED <<align0, facade, file, formats, header>>
    /\ UNCHANGED wvars

BumpBid(best_bid, failAt, fatal) ==
    /\ facade = "detect"
    /\ InSeq("bump", formats)
    /\ LET r == bump_reader_bid(ctx["bump"], file, best_bid,
                                NewIo(fpos, failAt, fatal))
       IN  /\ ctx' = [ctx EXCEPT !["bump"] = r.ctx]
           /\ ret' = r.ret
           /\ fpos' = r.io.pos
           /\ last' = Call("bump_bid", BidArg(best_bid), r.io, NoBids, "none")
    /\ UNCHANGED <<align0, facade, file, formats, header>>
    /\ UNCHANGED wvars

Probe(failAt, fatal) ==
    /\ facade = "detect"
    /\ formats # <<>>
    /\ LET r == ProbeDispatch(formats, ctx, file, NewIo(fpos, failAt, fatal))
       IN  /\ ctx' = r.ctx
           /\ ret' = r.ret
           /\ fpos' = r.io.pos
           /\ last' = Call("probe", NoArgs, r.io, r.bids, r.selected)
    /\ UNCHANGED <<align0, facade, file, formats, header>>
    /\ UNCHANGED wvars

ReadHeader(failAt, fatal) ==
    /\ facade \in {"reader", "options"}
    /\ InSeq("android", formats)
    /\ LET r == android_reader_read_header(ctx["android"], file,
                                           NewIo(fpos, failAt, fatal))
       IN  /\ ctx' = [ctx EXCEPT !["android"] = r.ctx]
           /\ ret' = r.ret
           /\ fpos' = r.io.pos
           /\ header' = IF r.header_set THEN r.header ELSE header
           /\ last' = Call("read_header", NoArgs, r.io, NoBids, "none")
    /\ UNCHANGED <<align0, facade, file, formats>>
    /\ UNCHANGED wvars

WriteHeader(hd, failAt, fatal) ==
    /\ facade \in {"writer", "stream"}
    /\ facade = "stream" => hd \in StreamHeaders
    /\ wstate = "header"
    /\ LET r == mtk_writer_write_header(wctx, hd,
                                        NewWio(wpos, failAt, fatal, wfile))
       IN  /\ wctx' = r.ctx
           /\ wret' = r.ret
           /\ werr' = r.err
           /\ wpos' = r.io.pos
           /\ wfile' = r.io.file
           /\ wstate' = After(r.ret, "entry", "header")
           /\ wlast' = WCall("write_header", hd, NoData, r.io)
    /\ UNCHANGED <<align0, facade, wdata>>
    /\ UNCHANGED rvars

GetEntry ==
    /\ facade = "stream"
    /\ wstate = "entry"
    /\ LET r == mtk_writer_get_entry(wctx, NewWio(wpos, 0, FALSE, wfile))
       IN  /\ wctx' = r.ctx
           /\ wret' = r.ret
           /\ werr' = r.err
           /\ wpos' = r.io.pos
           /\ wfile' = r.io.file
           /\ wstate' = After(r.ret, "data", "entry")
           /\ wdata' = IF r.ret = RET_OK
                       THEN Append(wdata, [type |-> entry(r.ctx).type,
                                           runs |-> <<>>])
                       ELSE wdata
           /\ wlast' = WCall("get_entry", NoHeaderInput, NoData, r.io)
    /\ UNCHANGED <<align0, facade>>
    /\ UNCHANGED rvars

WriteEntry(size) ==
    /\ facade = "stream"
    /\ wstate = "data"
    /\ wctx.entry_size = U64(0)
    /\ size \in SizeInputsFor(entry(wctx).type)
    /\ LET r == mtk_writer_write_entry(wctx, size,
                                       NewWio(wpos, 0, FALSE, wfile))
       IN  /\ wctx' = r.ctx
           /\ wret' = r.ret
           /\ werr' = r.err
           /\ wpos' = r.io.pos
           /\ wfile' = r.io.file
           /\ wstate' = After(r.ret, "data", "data")
           /\ wlast' = WCall("write_entry", NoHeaderInput,
                             [NoData EXCEPT !.size = size], r.io)
    /\ UNCHANGED <<align0, facade, wdata>>
    /\ UNCHANGED rvars

WriteData(d, failAt, fatal) ==
    /\ facade = "stream"
    /\ wstate = "data"
    /\ d \in DataInputs(entry(wctx).type, wctx.entry_size)
    /\ LET r == mtk_writer_write_data(wctx, d.b, d.count,
                                      NewWio(wpos, failAt, fatal, wfile))
       IN  /\ wctx' = r.ctx
           /\ wret' = r.ret
           /\ werr' = r.err
           /\ wpos' = r.io.pos
           /\ wfile' = r.io.file
           /\ wstate' = After(r.ret, "data", "data")
           /\ wdata' = IF r.ret = RET_OK
                       THEN [wdata EXCEPT ![Len(wdata)].runs = Append(@, d)]
                       ELSE wdata
           /\ wlast' = WCall("write_data", NoHeaderInput,
                             [NoData EXCEPT !.b = d.b, !.count = d.count], r.io)
    /\ UNCHANGED <<align0, facade>>
    /\ UNCHANGED rvars

FinishEntry(failAt, fatal) ==
    /\ facade = "stream"
    /\ wstate = "data"
    /\ LET r == mtk_writer_finish_entry(wctx,
                                        NewWio(wpos, failAt, fatal, wfile))
       IN  /\ wctx' = r.ctx
           /\ wret' = r.ret
           /\ werr' = r.err
           /\ wpos' = r.io.pos
           /\ wfile' = r.io.file
           /\ wstate' = After(r.ret, "entry", "data")
           /\ wlast' = WCall("finish_entry", NoHeaderInput, NoData, r.io)
    /\ UNCHANGED <<align0, facade, wdata>>
    /\ UNCHANGED rvars

Close(failAt, fatal) ==
    /\ facade = "stream"
    /\ wstate \notin {"closing", "closed"}
    /\ LET r == mtk_writer_close(wctx, NewWio(wpos, failAt, fatal, wfile))
       IN  /\ wctx' = r.ctx
           /\ wret' = r.ret
           /\ werr' = r.err
           /\ wpos' = r.io.pos
           /\ wfile' = r.io.file
           /\ wstate' = IF r.ret = RET_FAILED THEN "closing" ELSE "closed"
           /\ wlast' = WCall("close", NoHeaderInput, NoData, r.io)
    /\ UNCHANGED <<align0, facade, wdata>>
    /\ UNCHANGED rvars

\* the caller tries again a close that has failed
CloseAgain(failAt, fatal) ==
    /\ facade = "stream"
    /\ wstate = "closing"
    /\ LET r == mtk_writer_close(wctx, NewWio(wpos, failAt, fatal, wfile))
       IN  /\ wctx' = r.ctx
           /\ wret' = r.ret
           /\ werr' = r.err
           /\ wpos' = r.io.pos
           /\ wfile' = r.io.file
           /\ wstate' = IF r.ret = RET_FAILED THEN "closing" ELSE "closed"
           /\ wlast' = WCall("close", NoHeaderInput, NoData, r.io)
    /\ UNCHANGED <<align0, facade, wdata>>
    /\ UNCHANGED rvars

Next ==
    \/ EnableAndroid
    \/ EnableBump
    \/ \E kv \in OptionCalls : SetOption(kv[1], kv[2])
    \/ \E bc \in BidCalls : AndroidBid(bc[1], bc[2], bc[3])
    \/ \E bc \in BidCalls : BumpBid(bc[1], bc[2], bc[3])
    \/ \E fl \in Failures(8) : Probe(fl[1], fl[2])
    \/ \E fl \in Failures(2) : ReadHeader(fl[1], fl[2])
    \/ \E hd \in HeaderInputs, fl \in Failures(1) : WriteHeader(hd, fl[1], fl[2])
    \/ GetEntry
    \/ \E size \in SizeInputs : WriteEntry(size)
    \/ \E d \in AllDataInputs, fl \in Failures(1) : WriteData(d, fl[1], fl[2])
    \/ \E fl \in Failures(1) : FinishEntry(fl[1], fl[2])
    \/ \E fl \in Failures(MaxFailAt) : Close(fl[1], fl[2])
    \/ \E fl \in Failures(1) : CloseAgain(fl[1], fl[2])

Spec == Init /\ [][Next]_vars

----------------------------------------------------------------------------
(* The claims.  What a claim expects is written from the format's rules,   *)
(* not from the operators above.                                           *)

ACtx == ctx["android"]
BCtx == ctx["bump"]

\* the bytes of the file in which the header is searched
HeaderWindow(f) == Min(f.size, MAX_HEADER_OFFSET + SizeofAndroidHeader)
\* a whole Android header lies in them
CompleteHeader(f) ==
    \E o \in f.magic : o + SizeofAndroidHeader <= HeaderWindow(f)
\* the whole trailing magic `kind` lies at the tail offset the codec computes
MagicAtTail(f, kind, magic_size) ==
    /\ f.tail.kind = kind
    /\ f.tail.off = TrailerPos(f.hdr)
    /\ f.tail.off + magic_size <= f.size

AndroidBidDone ==
    /\ last.op = "android_bid"
    /\ last.args.best_bid < (BOOT_MAGIC_SIZE + SAMSUNG_SEANDROID_MAGIC_SIZE) * 8
    /\ ~last.failed

\* C1: with best_bid below the Android maximum and no failing file
\* operation, android_reader_bid returns 0 when no complete header is in the
\* first MAX_HEADER_OFFSET + sizeof(header) bytes, BOOT_MAGIC_SIZE*8 when the
\* header is found and the Samsung magic is not at the tail offset, and
\* (BOOT_MAGIC_SIZE + SAMSUNG_SEANDROID_MAGIC_SIZE)*8 when both are found;
\* have_header_offset and have_samsung_offset are true exactly for the parts
\* found.
C1_AndroidBid ==
    AndroidBidDone =>
        /\ ret = IF ~CompleteHeader(file) THEN 0
                 ELSE IF ~MagicAtTail(file, "samsung",
                                      SAMSUNG_SEANDROID_MAGIC_SIZE)
                 THEN BOOT_MAGIC_SIZE * 8
                 ELSE (BOOT_MAGIC_SIZE + SAMSUNG_SEANDROID_MAGIC_SIZE) * 8
        /\ ACtx.have_header_offset = CompleteHeader(file)
        /\ ACtx.have_samsung_offset =
               (/\ CompleteHeader(file)
                /\ MagicAtTail(file, "samsung", SAMSUNG_SEANDROID_MAGIC_SIZE))

C1_Witness ==
    /\ AndroidBidDone
    /\ ret = (BOOT_MAGIC_SIZE + SAMSUNG_SEANDROID_MAGIC_SIZE) * 8
    /\ ACtx.have_samsung_offset

\* C2: a bid called with best_bid at or above the codec's maximum,
\* (BOOT_MAGIC_SIZE + SAMSUNG_SEANDROID_MAGIC_SIZE)*8 for Android and
\* (BOOT_MAGIC_SIZE + BUMP_MAGIC_SIZE)*8 for Bump, returns CANNOT_WIN
\* (RET_WARN), makes no seek and no read, and leaves the codec contexts and
\* the file position as they were.
C2_CannotWin ==
    [][ /\ ( /\ last'.op = "android_bid"
             /\ last'.args.best_bid >=
                    (BOOT_MAGIC_SIZE + SAMSUNG_SEANDROID_MAGIC_SIZE) * 8 )
           => (ret' = RET_WARN /\ last'.n = 0 /\ ctx' = ctx /\ fpos' = fpos)
        /\ ( /\ last'.op = "bump_bid"
             /\ last'.args.best_bid >= (BOOT_MAGIC_SIZE + BUMP_MAGIC_SIZE) * 8 )
           => (ret' = RET_WARN /\ last'.n = 0 /\ ctx' = ctx /\ fpos' = fpos)
      ]_vars

C2_Witness ==
    /\ last.op = "android_bid"
    /\ last.args.best_bid = (BOOT_MAGIC_SIZE + SAMSUNG_SEANDROID_MAGIC_SIZE) * 8
    /\ ret = RET_WARN
    /\ ACtx.have_header_offset

\* a probe, with both codecs registered and no failing file operation, of an
\* image with a complete header and the Bump magic at the tail offset
BumpImageProbed ==
    /\ last.op = "probe"
    /\ ~last.failed
    /\ Len(formats) = 2
    /\ CompleteHeader(file)
    /\ MagicAtTail(file, "bump", BUMP_MAGIC_SIZE)

\* C3 as stated: in either registration order the Android bid is
\* BOOT_MAGIC_SIZE*8, the Bump bid is (BOOT_MAGIC_SIZE + BUMP_MAGIC_SIZE)*8
\* and Bump is selected.
C3_AsStated ==
    BumpImageProbed =>
        /\ last.bids["android"].ret = BOOT_MAGIC_SIZE * 8
        /\ last.bids["bump"].ret = (BOOT_MAGIC_SIZE + BUMP_MAGIC_SIZE) * 8
        /\ last.selected = "bump"

\* C3: in either registration order the Bump bid is
\* (BOOT_MAGIC_SIZE + BUMP_MAGIC_SIZE)*8 and Bump is selected; the Android
\* bid is BOOT_MAGIC_SIZE*8 when Android is registered first, and CANNOT_WIN
\* (RET_WARN) when Bump is registered first, its bid being the Android
\* maximum already.
C3_BumpWins ==
    BumpImageProbed =>
        /\ last.bids["bump"].called /\ last.bids["android"].called
        /\ last.bids["bump"].ret = (BOOT_MAGIC_SIZE + BUMP_MAGIC_SIZE) * 8
        /\ last.selected = "bump"
        /\ formats = <<"android", "bump">>
               => last.bids["android"].ret = BOOT_MAGIC_SIZE * 8
        /\ formats = <<"bump", "android">>
               => last.bids["android"].ret = RET_WARN

C3_Witness ==
    /\ BumpImageProbed
    /\ formats = <<"bump", "android">>
    /\ last.bids["android"].ret = RET_WARN
    /\ last.selected = "bump"

ReadHeaderOk == last.op = "read_header" /\ ret = RET_OK

\* the entry types and sizes the on-disk header h calls for
ExpectedEntries(h) ==
    <<[type |-> ENTRY_TYPE_KERNEL, size |-> h.kernel_size],
      [type |-> ENTRY_TYPE_RAMDISK, size |-> h.ramdisk_size]>>
    \o (IF h.second_size > 0
        THEN <<[type |-> ENTRY_TYPE_SECONDBOOT, size |-> h.second_size]>>
        ELSE <<>>)
    \o (IF h.dt_size > 0
        THEN <<[type |-> ENTRY_TYPE_DEVICE_TREE, size |-> h.dt_size]>>
        ELSE <<>>)

TypesAndSizes(seg) ==
    [i \in 1..Len(seg) |-> [type |-> seg[i].type, size |-> seg[i].size]]

\* C4: after a successful read_header the table holds KERNEL, RAMDISK,
\* SECONDBOOT iff second_size > 0 and DEVICE_TREE iff dt_size > 0, in that
\* order, each with the size of the on-disk header; for the S1 image it is
\* KERNEL(100), RAMDISK(50).
C4_Table ==
    ReadHeaderOk =>
        /\ TypesAndSizes(ACtx.seg) = ExpectedEntries(file.hdr)
        /\ file.hdr = S1Header =>
               TypesAndSizes(ACtx.seg) =
                   <<[type |-> "KERNEL", size |-> 100],
                     [type |-> "RAMDISK", size |-> 50]>>

C4_Witness ==
    /\ ReadHeaderOk
    /\ file.hdr = S1Header
    /\ Len(ACtx.seg) = 2

IsMultiple(x, p) == IF p = 0 THEN x = 0 ELSE x % p = 0

\* C5 as stated: after a successful read_header with on-disk page size P the
\* first segment begins at header_offset + sizeof(header) rounded up to a
\* multiple of P, each later one at the end of the one before rounded up to
\* a multiple of P, every offset is a multiple of P and no two segments
\* overlap, whatever page size read_header accepted.
C5_AsStated ==
    ReadHeaderOk =>
        /\ ACtx.seg[1].offset =
               RoundUp(ACtx.header_offset + SizeofAndroidHeader,
                       file.hdr.page_size)
        /\ \A i \in 2..Len(ACtx.seg) :
               ACtx.seg[i].offset =
                   RoundUp(ACtx.seg[i - 1].offset + ACtx.seg[i - 1].size,
                           file.hdr.page_size)
        /\ \A i \in 1..Len(ACtx.seg) :
               IsMultiple(ACtx.seg[i].offset, file.hdr.page_size)
        /\ \A i \in 1..Len(ACtx.seg) : \A j \in (i + 1)..Len(ACtx.seg) :
               ACtx.seg[i].offset + ACtx.seg[i].size <= ACtx.seg[j].offset

\* C6 as stated: in every reachable state a segment has can_truncate = true
\* only if it is the DEVICE_TREE and allow_truncated_dt is true at that time.
C6_AsStated ==
    /\ \A k \in {"android", "bump"} : \A i \in 1..Len(ctx[k].seg) :
           ctx[k].seg[i].can_truncate =>
               /\ ctx[k].seg[i].type = ENTRY_TYPE_DEVICE_TREE
               /\ ctx[k].allow_truncated_dt
    /\ \A i \in 1..Len(wctx.seg) : ~wctx.seg[i].can_truncate

LowerCase(ch) == IF 65 <= ch /\ ch <= 90 THEN ch + 32 ELSE ch
Lowered(str) == [i \in 1..Len(str) |-> LowerCase(str[i])]
\* "true", "yes" or "y" in any letter case, or "1"
MeansStrict(value) ==
    \/ Lowered(value) \in {<<116, 114, 117, 101>>, <<121, 101, 115>>, <<121>>}
    \/ value = <<49>>

\* C7: set_option("strict", v) returns OK and makes allow_truncated_dt false
\* when v is "true", "yes" or "y" in any letter case or "1", and true for
\* every other v; enabling the format makes it true; no other call changes
\* it, so the last set_option call decides it.
C7_Strict ==
    [][ /\ ( last'.op = "set_option"
             /\ last'.args.key = <<115, 116, 114, 105, 99, 116>> )
           => /\ ret' = RET_OK
              /\ ctx'["android"].allow_truncated_dt
                     = ~MeansStrict(last'.args.value)
        /\ ( last'.op = "enable_android" /\ ret' = RET_OK )
           => ctx'["android"].allow_truncated_dt
        /\ ( \/ last'.op \in {"android_bid", "read_header"}
             \/ ( last'.op = "set_option"
                  /\ last'.args.key # <<115, 116, 114, 105, 99, 116>> ) )
           => ctx'["android"].allow_truncated_dt
                  = ctx["android"].allow_truncated_dt
      ]_vars

C7_Witness ==
    /\ last.op = "set_option"
    /\ last.args.key = <<115, 116, 114, 105, 99, 116>>
    /\ last.args.value = <<89, 101, 83>>
    /\ ret = RET_OK
    /\ ~ACtx.allow_truncated_dt
    /\ ACtx.seg # <<>>

WriteHeaderDone == wlast.op = "write_header"
PageSizeGiven(hd) ==
    /\ hd.page_size.has
    /\ hd.page_size.val \in {2048, 4096, 8192, 16384, 32768, 65536, 131072}

\* C9: write_header fails with FILE_FORMAT when the header has no page_size
\* or one outside {2048, 4096, 8192, 16384, 32768, 65536, 131072}; for each
\* of the seven it sets hdr.page_size to it, and succeeds when nothing else
\* is wrong; a load address absent from the header is written as zero.
C9_PageSize ==
    WriteHeaderDone =>
        /\ ~PageSizeGiven(wlast.header)
               => (wret = RET_FAILED /\ werr = "FILE_FORMAT")
        /\ PageSizeGiven(wlast.header)
               => wctx.hdr.page_size = wlast.header.page_size.val
        /\ ( /\ PageSizeGiven(wlast.header)
             /\ ~wlast.header.board_name.has
             /\ ~wlast.header.kernel_cmdline.has
             /\ ~wlast.failed ) => wret = RET_OK
        /\ ~wlast.header.kernel_address.has => wctx.hdr.kernel_addr = 0
        /\ ~wlast.header.ramdisk_address.has => wctx.hdr.ramdisk_addr = 0
        /\ ~wlast.header.secondboot_address.has => wctx.hdr.second_addr = 0
        /\ ~wlast.header.kernel_tags_address.has => wctx.hdr.tags_addr = 0

C9_Witness ==
    /\ WriteHeaderDone
    /\ wlast.header.page_size = Some(2048)
    /\ ~wlast.header.ramdisk_address.has
    /\ wret = RET_OK
    /\ wctx.hdr.page_size = 2048
    /\ wctx.hdr.ramdisk_addr = 0

\* all the bytes of a char array
Bytes(a) == [i \in 1..a.size |-> ByteAt(a, i)]
\* str followed by zero bytes, size bytes in all
Padded(str, size) == [i \in 1..size |-> IF i <= Len(str) THEN str[i] ELSE 0]
\* str up to its first NUL
UpToNul(str) ==
    SubSeq(str, 1, CHOOSE n \in 0..Len(str) :
                       /\ \A i \in 1..n : str[i] # 0
                       /\ n = Len(str) \/ str[n + 1] = 0)
TooLong(field, limit) == field.has /\ Len(field.val) > limit
\* the field is what `content` of the string asks for
FieldHolds(a, field, content) ==
    /\ Bytes(a) = Padded(IF field.has THEN content ELSE <<>>, a.size)
    /\ ByteAt(a, a.size) = 0

\* what C10 says in both its forms, but for the content of the fields
C10_Accepts ==
    /\ ( TooLong(wlast.header.board_name, 15)
         \/ TooLong(wlast.header.kernel_cmdline, 511) )
           => (wret = RET_FAILED /\ werr = "FILE_FORMAT")
    /\ ~( TooLong(wlast.header.board_name, 15)
          \/ TooLong(wlast.header.kernel_cmdline, 511) )
           => (werr # "FILE_FORMAT" /\ (~wlast.failed => wret = RET_OK))

\* C10 as stated: with a valid page size, write_header accepts a board_name
\* of length L iff L <= 15 and a kernel_cmdline iff L <= 511, failing with
\* FILE_FORMAT otherwise; on acceptance each field holds the string followed
\* by zero bytes only, its last byte being zero.
C10_AsStated ==
    (WriteHeaderDone /\ PageSizeGiven(wlast.header)) =>
        /\ C10_Accepts
        /\ werr # "FILE_FORMAT" =>
               /\ FieldHolds(wctx.hdr.name, wlast.header.board_name,
                             wlast.header.board_name.val)
               /\ FieldHolds(wctx.hdr.cmdline, wlast.header.kernel_cmdline,
                             wlast.header.kernel_cmdline.val)

\* C10: the same, the field holding the string up to its first NUL byte (all
\* of it when it has none) followed by zero bytes only.
C10_Fields ==
    (WriteHeaderDone /\ PageSizeGiven(wlast.header)) =>
        /\ C10_Accepts
        /\ werr # "FILE_FORMAT" =>
               /\ FieldHolds(wctx.hdr.name, wlast.header.board_name,
                             UpToNul(wlast.header.board_name.val))
               /\ FieldHolds(wctx.hdr.cmdline, wlast.header.kernel_cmdline,
                             UpToNul(wlast.header.kernel_cmdline.val))

C10_Witness ==
    /\ WriteHeaderDone
    /\ wret = RET_OK
    /\ wlast.header.board_name.has
    /\ wlast.header.kernel_cmdline.has
    /\ Len(wlast.header.board_name.val) = 15
    /\ Len(wlast.header.kernel_cmdline.val) = 511
    /\ Len(wctx.hdr.name.bytes) = 15
    /\ Len(wctx.hdr.cmdline.bytes) = 511

----------------------------------------------------------------------------
(* The MTK writer's streaming *)

\* the bytes of a list of data
RECURSIVE SumCounts(_)
SumCounts(runs) ==
    IF runs = <<>> THEN U64(0) ELSE Add(runs[1].count, SumCounts(Tail(runs)))

\* the entry the caller got last, and the bytes it wrote to it
Streaming == wdata[Len(wdata)]
StreamedSize == SumCounts(Streaming.runs)

\* the data the caller wrote to the entry of type t
DataOf(t) ==
    IF \E i \in 1..Len(wdata) : wdata[i].type = t
    THEN wdata[CHOOSE i \in 1..Len(wdata) : wdata[i].type = t].runs
    ELSE <<>>

Payloads == {ENTRY_TYPE_KERNEL, ENTRY_TYPE_RAMDISK}
SubHeaders == {ENTRY_TYPE_MTK_KERNEL_HEADER, ENTRY_TYPE_MTK_RAMDISK_HEADER}
MaxPayload == Sub(UINT32_MAX, U64(SizeofMtkHeader))

\* the engine's finish_entry fails only when its seek does
EngineFinished == wlast.op = "finish_entry" /\ ~wlast.failed

\* C11: when the segment engine's finish_entry succeeds,
\* mtk_writer_finish_entry returns FATAL if and only if the finished segment
\* is KERNEL or RAMDISK of size exactly UINT32_MAX - sizeof(MtkHeader), or a
\* sub-header of a size other than sizeof(MtkHeader); otherwise it returns OK
C11_FinishEntry ==
    EngineFinished =>
        wret = IF \/ Streaming.type \in Payloads /\ StreamedSize = MaxPayload
                  \/ Streaming.type \in SubHeaders
                     /\ StreamedSize # U64(SizeofMtkHeader)
               THEN RET_FATAL
               ELSE RET_OK

\* scenario S6: a kernel of UINT32_MAX - sizeof(MtkHeader) bytes is finished
C11_Witness ==
    /\ EngineFinished
    /\ Streaming.type = ENTRY_TYPE_KERNEL
    /\ StreamedSize = MaxPayload
    /\ wret = RET_FATAL

\* the header after a segment of the given type and size is finished, its
\* size field an exact integer
HdrAfter(h, type, size) ==
    IF type = ENTRY_TYPE_KERNEL
    THEN [h EXCEPT !.kernel_size = Add(size, U64(SizeofMtkHeader))]
    ELSE IF type = ENTRY_TYPE_RAMDISK
    THEN [h EXCEPT !.ramdisk_size = Add(size, U64(SizeofMtkHeader))]
    ELSE IF type = ENTRY_TYPE_SECONDBOOT THEN [h EXCEPT !.second_size = size]
    ELSE IF type = ENTRY_TYPE_DEVICE_TREE THEN [h EXCEPT !.dt_size = size]
    ELSE h

\* C12: whenever mtk_writer_finish_entry returns OK, the in-memory header
\* holds the exact sum KERNEL.size + sizeof(MtkHeader) (RAMDISK alike), or
\* the exact size of SECONDBOOT or DEVICE_TREE, with no 32-bit wrap-around,
\* and no other field of the header has changed
C12_AsStated ==
    [][(wstate = "data" /\ wlast'.op = "finish_entry" /\ wret' = RET_OK)
         => wctx'.hdr = HdrAfter(wctx.hdr, Streaming.type, StreamedSize)]_vars

\* close has finalized the image: the cursor is on no entry
Finalized ==
    wlast.op = "close" /\ wret = RET_OK /\ entry(wctx).type = "null"

\* all six entries were streamed before the close finalized the image
Complete == Finalized /\ Len(wdata) = 6

EntryOf(t) ==
    wctx.seg[CHOOSE i \in 1..Len(wctx.seg) : wctx.seg[i].type = t]

\* the four bytes of the file at off, read as a little-endian integer: the
\* value written there at close, unless the header or data lies over it
Le32At(f, off) ==
    IF f.head.has /\ Less(off, U64(SizeofAndroidHeader))
    THEN [kind |-> "header", val |-> U64(0)]
    ELSE IF \E p \in f.patches : p.off = off
    THEN [kind |-> "le32", val |-> (CHOOSE p \in f.patches : p.off = off).val]
    ELSE [kind |-> "data", val |-> U64(0)]

SizeFieldOf(t) ==
    Le32At(wfile, Add(EntryOf(t).offset, U64(OffsetofMtkHeaderSize)))

\* C13: after every close that finalizes and returns OK, the size field in
\* the MTK_KERNEL_HEADER segment holds the KERNEL segment's size and the one
\* in the MTK_RAMDISK_HEADER segment the RAMDISK segment's size, whatever
\* entry operations came before
C13_AsStated ==
    (Finalized /\ Len(wctx.seg) = 6) =>
        /\ SizeFieldOf(ENTRY_TYPE_MTK_KERNEL_HEADER)
             = [kind |-> "le32", val |-> EntryOf(ENTRY_TYPE_KERNEL).size]
        /\ SizeFieldOf(ENTRY_TYPE_MTK_RAMDISK_HEADER)
             = [kind |-> "le32", val |-> EntryOf(ENTRY_TYPE_RAMDISK).size]

\* the caller has got all six entries
AllSix == Len(wdata) = 6

\* C14: once all six entries are streamed in order, each sub-header sits
\* flush against its payload (KERNEL.offset = MTK_KERNEL_HEADER.offset +
\* sizeof(MtkHeader), RAMDISK alike) and the first sub-header starts at
\* page_size
C14_Flush ==
    AllSix =>
        /\ EntryOf(ENTRY_TYPE_KERNEL).offset
             = Add(EntryOf(ENTRY_TYPE_MTK_KERNEL_HEADER).offset,
                   U64(SizeofMtkHeader))
        /\ EntryOf(ENTRY_TYPE_RAMDISK).offset
             = Add(EntryOf(ENTRY_TYPE_MTK_RAMDISK_HEADER).offset,
                   U64(SizeofMtkHeader))
        /\ EntryOf(ENTRY_TYPE_MTK_KERNEL_HEADER).offset = U64(wctx.hdr.page_size)

\* all six entries were got, after a ramdisk of 2048 bytes
C14_Witness ==
    /\ AllSix
    /\ EntryOf(ENTRY_TYPE_RAMDISK).size = U64(2048)
    /\ Less(EntryOf(ENTRY_TYPE_RAMDISK).offset,
            EntryOf(ENTRY_TYPE_SECONDBOOT).offset)

OffsetMod(t) == ModPage(EntryOf(t).offset, wctx.hdr.page_size)

\* C15: in every image the writer produced, every segment of the table
\* starts at a multiple of page_size
C15_AsStated ==
    Complete => \A i \in 1..Len(wctx.seg) : OffsetMod(wctx.seg[i].type) = 0

\* C15, amended: the sub-headers, SECONDBOOT and DEVICE_TREE start at
\* multiples of page_size; KERNEL and RAMDISK start sizeof(MtkHeader) bytes
\* after their sub-header, so at sizeof(MtkHeader) modulo page_size
C15_Aligned ==
    Complete =>
        /\ \A t \in SubHeaders \cup {ENTRY_TYPE_SECONDBOOT,
                                     ENTRY_TYPE_DEVICE_TREE} : OffsetMod(t) = 0
        /\ \A t \in Payloads : OffsetMod(t) = SizeofMtkHeader

\* an image with a second bootloader and a device tree was produced
C15_Witness ==
    /\ Complete
    /\ EntryOf(ENTRY_TYPE_SECONDBOOT).size = U64(300)
    /\ EntryOf(ENTRY_TYPE_DEVICE_TREE).size = U64(20)
    /\ Less(EntryOf(ENTRY_TYPE_SECONDBOOT).offset,
            EntryOf(ENTRY_TYPE_DEVICE_TREE).offset)

\* x aligned up to the page size p
AlignUp(x, p) == Add(x, U64((p - ModPage(x, p)) % p))

\* the tail offset of the format, from the header written to the file
WrittenTail(h) ==
    AlignUp(Add(AlignUp(Add(AlignUp(Add(AlignUp(Add(U64(h.page_size),
        h.kernel_size), h.page_size),
        h.ramdisk_size), h.page_size),
        h.second_size), h.page_size),
        h.dt_size), h.page_size)

\* C16: after a complete write (write_header, six entries streamed and
\* finished, close) the file is as long as the tail offset computed from
\* the header that was written
C16_AsStated ==
    Complete => /\ wfile.head.has
                /\ wfile.size = WrittenTail(wfile.head.hdr)

\* a list of data as bytes: runs, joined where the same byte goes on
RECURSIVE Joined(_, _)
Joined(runs, acc) ==
    IF runs = <<>> THEN acc
    ELSE IF acc # <<>> /\ acc[Len(acc)].b = runs[1].b
    THEN Joined(Tail(runs), [acc EXCEPT ![Len(acc)].len = Add(@, runs[1].count)])
    ELSE Joined(Tail(runs), Append(acc, [b |-> runs[1].b, len |-> runs[1].count]))

\* the payload type a sub-header goes with
PayloadOf(t) ==
    IF t = ENTRY_TYPE_MTK_KERNEL_HEADER THEN ENTRY_TYPE_KERNEL
    ELSE ENTRY_TYPE_RAMDISK

\* what the image holds for the entry of type t, from what the caller
\* streamed: its data and, in a sub-header, the payload's size in the size
\* field
StreamedBytes(t) ==
    [runs |-> Joined(DataOf(t), <<>>),
     patches |-> IF t \in SubHeaders
                 THEN {[at |-> U64(OffsetofMtkHeaderSize),
                        val |-> ToU32(SumCounts(DataOf(PayloadOf(t))))]}
                 ELSE {}]

\* the size that follows the entry of type t in the digest, if one does
StreamedTerm(t) ==
    IF t = ENTRY_TYPE_KERNEL
    THEN <<[le32 |-> Add32(SumCounts(DataOf(t)),
                           SumCounts(DataOf(ENTRY_TYPE_MTK_KERNEL_HEADER)))]>>
    ELSE IF t = ENTRY_TYPE_RAMDISK
    THEN <<[le32 |-> Add32(SumCounts(DataOf(t)),
                           SumCounts(DataOf(ENTRY_TYPE_MTK_RAMDISK_HEADER)))]>>
    ELSE IF t = ENTRY_TYPE_SECONDBOOT
    THEN <<[le32 |-> ToU32(SumCounts(DataOf(t)))]>>
    ELSE IF t = ENTRY_TYPE_DEVICE_TREE /\ DataOf(t) # <<>>
    THEN <<[le32 |-> ToU32(SumCounts(DataOf(t)))]>>
    ELSE <<>>

StreamedItem(t) ==
    (IF DataOf(t) = <<>> THEN <<>> ELSE <<[bytes |-> StreamedBytes(t)]>>)
    \o StreamedTerm(t)

\* the digest's input as section 4.4 of the specification gives it, from
\* the sequence of calls alone
StreamedItems ==
    StreamedItem(ENTRY_TYPE_MTK_KERNEL_HEADER) \o StreamedItem(ENTRY_TYPE_KERNEL)
    \o StreamedItem(ENTRY_TYPE_MTK_RAMDISK_HEADER)
    \o StreamedItem(ENTRY_TYPE_RAMDISK) \o StreamedItem(ENTRY_TYPE_SECONDBOOT)
    \o StreamedItem(ENTRY_TYPE_DEVICE_TREE)

\* C17: the id of the header written at close is a function of the entries
\* the caller streamed and of their data alone: two runs with the same
\* calls write the same id, whatever file operations failed on the way and
\* whatever the file held
C17_Deterministic ==
    (Finalized /\ Len(wctx.seg) = 6) =>
        /\ wfile.head.has
        /\ wfile.head.hdr.id = Sha1(StreamedItems)

\* scenario S3 was written, with a second bootloader
C17_Witness ==
    /\ Complete
    /\ DataOf(ENTRY_TYPE_KERNEL) = <<Data(170, U64(1024))>>
    /\ DataOf(ENTRY_TYPE_RAMDISK) = <<Data(187, U64(2048))>>
    /\ DataOf(ENTRY_TYPE_SECONDBOOT) = <<Data(204, U64(300))>>
    /\ wfile.head.hdr.id # <<>>

\* the bytes of segment e in the file, as the digest is fed them
SegmentItem(e) ==
    IF e.size = U64(0) THEN <<>>
    ELSE <<[bytes |-> BytesIn(wfile, e.offset, Add(e.offset, e.size))]>>

\* the size of the header that goes with segment e, if one does
SizeItem(e, h) ==
    IF e.type = ENTRY_TYPE_KERNEL THEN <<[le32 |-> h.kernel_size]>>
    ELSE IF e.type = ENTRY_TYPE_RAMDISK THEN <<[le32 |-> h.ramdisk_size]>>
    ELSE IF e.type = ENTRY_TYPE_SECONDBOOT THEN <<[le32 |-> h.second_size]>>
    ELSE IF e.type = ENTRY_TYPE_DEVICE_TREE /\ e.size # U64(0)
    THEN <<[le32 |-> h.dt_size]>>
    ELSE <<>>

RECURSIVE CoveredItems(_, _)
CoveredItems(seg, h) ==
    IF seg = <<>> THEN <<>>
    ELSE SegmentItem(seg[1]) \o SizeItem(seg[1], h) \o CoveredItems(Tail(seg), h)

\* C18: the digest is fed every byte of every segment of the table, in
\* table order, and of the Android header only the four segment sizes: no
\* board name, cmdline, load address or reserved byte
C18_Coverage ==
    Complete =>
        wfile.head.hdr.id = Sha1(CoveredItems(wctx.seg, wfile.head.hdr))

\* an image with a device tree was produced from the header that has no
\* board name
C18_Witness ==
    /\ Complete
    /\ EntryOf(ENTRY_TYPE_DEVICE_TREE).size = U64(20)
    /\ EntryOf(ENTRY_TYPE_KERNEL).size = U64(2048)
    /\ wfile.head.hdr.name = memset0(SizeofName)
    /\ wfile.head.hdr.page_size = 4096

\* C19: when a file operation fails inside android/bump bid, read_header,
\* the MTK write_header or the MTK close, the operation returns FATAL if the
\* file reports the fatal bit and FAILED otherwise
C19_FileErrors ==
    /\ (last.op \in {"android_bid", "bump_bid", "read_header"} /\ last.failed)
         => ret = IF last.fatal THEN RET_FATAL ELSE RET_FAILED
    /\ (wlast.op \in {"write_header", "close"} /\ wlast.failed)
         => wret = IF wlast.fatal THEN RET_FATAL ELSE RET_FAILED

\* a close failed with the fatal bit during its digest pass
C19_Witness ==
    /\ wlast.op = "close" /\ wlast.failed /\ wlast.fatal
    /\ wlast.n > 8
    /\ wret = RET_FATAL

\* the end of the last section read_header laid out, rounded up to the
\* page size
LaidOutEnd(seg, page_size) ==
    RoundUp(seg[Len(seg)].offset + seg[Len(seg)].size, page_size)

\* C20: on every image on which the reader finds a header, the offset at
\* which the bid looks for the trailing magic is the end of the last
\* section as read_header lays it out, rounded up to the page size, for
\* every header offset and every page size
C20_AsStated ==
    ReadHeaderOk => TrailerPos(ACtx.hdr) = LaidOutEnd(ACtx.seg, ACtx.hdr.page_size)

----------------------------------------------------------------------------
(* The trailing magics and the cached header *)

\* the tail offset of an image with header h.  A page size of 0 has no
\* multiple to round up to: the offset is then what this build's
\* align_page_size makes of it, every section end wrapped to 0 or left
\* where it is
TailAt(h) ==
    IF h.page_size = 0 /\ align0 = "wrap" THEN 0 ELSE TailOffset(h)

\* the bytes a read of count bytes at offset at gets from file f
BytesAt(f, at, count) ==
    IF at >= f.size THEN 0 ELSE IF at + count <= f.size THEN count
    ELSE f.size - at

\* the whole magic of the kind lies in file f at offset at
WholeMagicAt(f, kind, at, magic_size) ==
    f.tail.kind = kind /\ f.tail.off = at /\ BytesAt(f, at, magic_size) = magic_size

\* a bid of the codec has searched the header and the trailing magic, and
\* no file operation failed
Searched(l, op) == l.op = op /\ l.n = 4 /\ ~l.failed

\* what a bid that searched leaves: the file read at the tail offset and,
\* if the whole magic is there, the bid with the magic's bits and the
\* offset stored; if not, the bid without them and the offset as it was
MagicSearched(f, kind, magic_size, pos, r, have, off, have0, off0) ==
    /\ pos = TailAt(f.hdr) + BytesAt(f, TailAt(f.hdr), magic_size)
    /\ IF WholeMagicAt(f, kind, TailAt(f.hdr), magic_size)
       THEN r = (BOOT_MAGIC_SIZE + magic_size) * 8
            /\ have /\ off = TailAt(f.hdr)
       ELSE r = BOOT_MAGIC_SIZE * 8
            /\ have = have0 /\ off = off0

\* C21: find_samsung_seandroid_magic and find_bump_magic seek to the same
\* tail offset: 0 plus page_size, then kernel_size, ramdisk_size, second_size
\* and dt_size each added and rounded up to a multiple of page_size.  The
\* magic is found, and its offset stored, only when all of it is read at
\* that offset; a short read or a mismatch leaves the stored offset as it
\* was.
C21_TailMagic ==
    [][/\ Searched(last', "android_bid") =>
            MagicSearched(file, "samsung", SAMSUNG_SEANDROID_MAGIC_SIZE,
                          fpos', ret',
                          ctx'["android"].have_samsung_offset,
                          ctx'["android"].samsung_offset,
                          ACtx.have_samsung_offset, ACtx.samsung_offset)
       /\ Searched(last', "bump_bid") =>
            MagicSearched(file, "bump", BUMP_MAGIC_SIZE, fpos', ret',
                          ctx'["bump"].have_bump_offset,
                          ctx'["bump"].bump_offset,
                          BCtx.have_bump_offset, BCtx.bump_offset)]_vars

\* a bid found the Bump magic behind a device tree, at the tail offset
C21_Witness ==
    /\ Searched(last, "bump_bid")
    /\ file.hdr.dt_size = 20
    /\ BCtx.have_bump_offset
    /\ BCtx.bump_offset = 10240
    /\ ret = (BOOT_MAGIC_SIZE + BUMP_MAGIC_SIZE) * 8

\* the header and its offset, as the context holds them
CachedHeader(c) == <<c.hdr, c.header_offset>>

\* a call that finds the header cached does nothing with the file and
\* keeps the header and its offset
UsesCache ==
    /\ last'.n = 0
    /\ fpos' = fpos
    /\ CachedHeader(ctx'["android"]) = CachedHeader(ACtx)

\* read_header with no header cached searches the file, and caches the
\* header when it finds it
ScansLazily ==
    /\ last'.n >= 1
    /\ ret' = RET_OK => ctx'["android"].have_header_offset

\* have_header_offset stays true
StaysCached ==
    /\ ACtx.have_header_offset => ctx'["android"].have_header_offset
    /\ BCtx.have_header_offset => ctx'["bump"].have_header_offset

\* C22: read_header without a bid before it searches the file for the
\* header and, on success, sets have_header_offset; read_header and every
\* later call made with have_header_offset set, a bid among them, uses the
\* cached header and offset and neither seeks nor reads; have_header_offset
\* never goes back to false
C22_AsStated ==
    [][/\ (last'.op = "read_header" /\ ~ACtx.have_header_offset) => ScansLazily
       /\ (last'.op \in {"read_header", "android_bid"}
           /\ ACtx.have_header_offset) => UsesCache
       /\ StaysCached]_vars

\* C22, amended: the same for read_header alone; a bid searches the file
\* whether or not the header is cached
C22_Cached ==
    [][/\ (last'.op = "read_header" /\ ~ACtx.have_header_offset) => ScansLazily
       /\ (last'.op = "read_header" /\ ACtx.have_header_offset) => UsesCache
       /\ (last'.op = "android_bid" /\ ACtx.have_header_offset
           /\ last'.args.best_bid < AndroidMaxBid) => last'.n >= 1
       /\ StaysCached]_vars

\* read_header has used the header a call before it found at offset 512
C22_Witness ==
    /\ last.op = "read_header"
    /\ last.n = 0
    /\ ret = RET_OK
    /\ ACtx.have_header_offset
    /\ ACtx.header_offset = 512
    /\ ACtx.seg[1].offset = 2048

----------------------------------------------------------------------------
(* The MTK writer's table and its close *)

\* the six entries of an MTK image, in the order of the file, and the
\* alignment of each for page size p
MtkOrder ==
    <<ENTRY_TYPE_MTK_KERNEL_HEADER, ENTRY_TYPE_KERNEL,
      ENTRY_TYPE_MTK_RAMDISK_HEADER, ENTRY_TYPE_RAMDISK,
      ENTRY_TYPE_SECONDBOOT, ENTRY_TYPE_DEVICE_TREE>>
MtkAlign(t, p) == IF t \in SubHeaders THEN 0 ELSE p

\* the table seg is the one write_header sets up for page size p
SixEntries(seg, p) ==
    /\ Len(seg) = Len(MtkOrder)
    /\ \A i \in 1..Len(MtkOrder) :
          /\ seg[i].type = MtkOrder[i]
          /\ seg[i].align = MtkAlign(MtkOrder[i], p)
          /\ ~seg[i].can_truncate

WriteHeaderOk == wlast.op = "write_header" /\ wret = RET_OK

\* C23: after a successful write_header the table holds exactly
\* MTK_KERNEL_HEADER, KERNEL, MTK_RAMDISK_HEADER, RAMDISK, SECONDBOOT and
\* DEVICE_TREE in this order, aligned to 0 (sub-headers) or page_size
\* (payloads), none of them truncatable, and the file is at page_size
C23_Table ==
    WriteHeaderOk =>
        /\ wlast.header.page_size.has
        /\ SixEntries(wctx.seg, wlast.header.page_size.val)
        /\ wpos = U64(wlast.header.page_size.val)

\* write_header succeeded with the largest page size
C23_Witness ==
    /\ WriteHeaderOk
    /\ wlast.header.page_size = Some(131072)
    /\ wctx.seg[2].align = 131072
    /\ wpos = U64(131072)

\* the header passes the validation of write_header
ValidHeader(hd) ==
    /\ PageSizeGiven(hd)
    /\ ~TooLong(hd.board_name, SizeofName - 1)
    /\ ~TooLong(hd.kernel_cmdline, SizeofCmdline - 1)

\* the last write_header failed the validation
Refused == wlast.op = "write_header" /\ werr = "FILE_FORMAT"

\* C29: a write_header that fails the validation of the header (page_size
\* missing or invalid, board name or cmdline too long) makes no file
\* operation and leaves the table as it was; a write_header with a valid
\* header that follows it succeeds, no file operation failing, with the
\* six entries and the file position of a first successful call
C29_Refused ==
    [][/\ (wlast'.op = "write_header" /\ ~ValidHeader(wlast'.header)) =>
            /\ wret' = RET_FAILED /\ werr' = "FILE_FORMAT"
            /\ wlast'.n = 0
            /\ wctx'.seg = wctx.seg
            /\ wfile' = wfile /\ wpos' = wpos
       /\ (Refused /\ wlast'.op = "write_header" /\ ValidHeader(wlast'.header)
           /\ ~wlast'.failed) =>
            /\ wret' = RET_OK
            /\ SixEntries(wctx'.seg, wlast'.header.page_size.val)
            /\ wpos' = U64(wlast'.header.page_size.val)
            /\ wfile' = wfile]_vars

\* a header was refused for its board name, and the table an earlier call
\* had built for a page size of 4096 before its seek failed is still there
C29_Witness ==
    /\ Refused
    /\ TooLong(wlast.header.board_name, SizeofName - 1)
    /\ PageSizeGiven(wlast.header)
    /\ SixEntries(wctx.seg, 4096)
    /\ wpos = U64(0)

----------------------------------------------------------------------------
(* read_header, called again *)

\* no type occurs twice in the table
NoDuplicates(seg) ==
    \A i, j \in 1..Len(seg) : seg[i].type = seg[j].type => i = j

\* C28: a read_header that follows a successful read_header, with no other
\* call in between, returns OK and leaves the table and the logical header
\* that call left: no entry is there twice, and no entries_add is refused
\* as UNSUPPORTED
C28_Idempotent ==
    [][(last.op = "read_header" /\ ret = RET_OK /\ last'.op = "read_header") =>
           /\ ret' = RET_OK
           /\ ctx'["android"].seg = ACtx.seg
           /\ NoDuplicates(ctx'["android"].seg)
           /\ header' = header]_vars

\* read_header has left the four entries of an image with a second
\* bootloader and a device tree, from the header it had cached
C28_Witness ==
    /\ last.op = "read_header"
    /\ last.n = 0
    /\ ret = RET_OK
    /\ Len(ACtx.seg) = 4
    /\ ACtx.seg[4].type = ENTRY_TYPE_DEVICE_TREE
    /\ header.set

----------------------------------------------------------------------------
(* close, and close again *)

\* the close being made has no current entry: it finalizes the image
Finalizing == wlast'.op = "close" /\ entry(wctx).type = "null"

\* the close being made fails in its k-th file operation
FailsAt(k) == wlast'.failed /\ wlast'.n = k

\* where the header written to the file ends, if one was
HeadEnd(f) == IF f.head.has THEN U64(SizeofAndroidHeader) ELSE U64(0)

\* C26: the file's length is captured at most once.  The first close whose
\* query of the position succeeds stores the position and sets
\* have_file_size; a later close, the position having moved or not, leaves
\* the stored length as it is and truncates the file to it (the file is
\* longer only if the header, written after that, ends beyond it)
C26_Once ==
    [][wlast'.op = "close" =>
          /\ (~wctx.have_file_size /\ FailsAt(1)) =>
                 /\ ~wctx'.have_file_size
                 /\ wfile' = wfile
          /\ (~wctx.have_file_size /\ ~FailsAt(1)) =>
                 /\ wctx'.have_file_size
                 /\ wctx'.file_size = wpos
          /\ wctx.have_file_size =>
                 /\ wctx'.have_file_size
                 /\ wctx'.file_size = wctx.file_size
                 /\ (Finalizing /\ ~FailsAt(1)) =>
                        wfile'.size = MaxU(wctx.file_size, HeadEnd(wfile'))
      ]_vars

\* a close has finalized, in 19 file operations, an image with a second
\* bootloader and a device tree: it did not ask for the position, which an
\* earlier close that failed had stored and then moved
C26_Witness ==
    /\ Complete
    /\ wstate = "closed"
    /\ EntryOf(ENTRY_TYPE_SECONDBOOT).size = U64(300)
    /\ EntryOf(ENTRY_TYPE_DEVICE_TREE).size = U64(20)
    /\ wlast.n = 19
    /\ wpos # wctx.file_size
    /\ wfile.size = wctx.file_size

\* the file operations a close makes before it looks at the current entry:
\* the query of the position, unless the length is stored already
QueryOps == IF wctx.have_file_size THEN 0 ELSE 1

\* the query of the position is made and fails
QueryFails == ~wctx.have_file_size /\ FailsAt(1)

\* C27: close finalizes the image (truncate, size fields of the
\* sub-headers, digest, header at offset 0) if and only if the segment
\* engine has no current entry.  With an entry current it returns OK and
\* neither truncates nor writes: the header page stays unwritten.  (A close
\* whose query of the position fails returns the file's error before
\* either.)
C27_Finalizes ==
    [][wlast'.op = "close" =>
          /\ (Finalizing /\ ~QueryFails) =>
                 /\ wlast'.n > QueryOps
                 /\ wlast'.failed \/ (wret' = RET_OK /\ wfile'.head.has)
          /\ (~Finalizing \/ QueryFails) =>
                 /\ wlast'.n = QueryOps
                 /\ wfile' = wfile
                 /\ ~wfile'.head.has
          /\ (~Finalizing /\ ~QueryFails) => wret' = RET_OK
      ]_vars

\* close was called in the middle of the kernel, after the first
\* sub-header was written
C27_Witness ==
    /\ wlast.op = "close"
    /\ wret = RET_OK
    /\ entry(wctx).type = ENTRY_TYPE_KERNEL
    /\ wlast.n = 1
    /\ Len(wfile.runs) = 2
    /\ ~wfile.head.has
    /\ wfile.patches = {}

\* the file operations of its finalization the close being made has
\* completed: all it made, but the one that failed
StepsDone ==
    wlast'.n - QueryOps - (IF wlast'.failed THEN 1 ELSE 0)

\* the value close writes to the size field of the sub-header of type t,
\* and where: the payload's size, at offset_of(size) in the segment
SizePatch(t) ==
    [off |-> Add(EntryOf(t).offset, U64(OffsetofMtkHeaderSize)),
     val |-> Sub32(IF t = ENTRY_TYPE_MTK_KERNEL_HEADER
                   THEN wctx.hdr.kernel_size ELSE wctx.hdr.ramdisk_size,
                   U64(SizeofMtkHeader))]

\* the 4-byte values ps with p written, over what was at its place
Patched(ps, p) == {q \in ps : q.off # p.off} \cup {p}

\* the size fields written once k steps of the finalization are completed:
\* the truncate, then a seek and a write for each sub-header
PatchesAfter(ps, k) ==
    IF wctx.seg = <<>> \/ k < 3 THEN ps
    ELSE IF k < 5 THEN Patched(ps, SizePatch(ENTRY_TYPE_MTK_KERNEL_HEADER))
    ELSE Patched(Patched(ps, SizePatch(ENTRY_TYPE_MTK_KERNEL_HEADER)),
                 SizePatch(ENTRY_TYPE_MTK_RAMDISK_HEADER))

\* the length of file f once truncated to the stored length: that length,
\* unless a size field or the header was then written past it
EndAfter(f) ==
    LET ends == {wctx'.file_size, HeadEnd(f)}
                    \cup {Add(p.off, U64(4)) : p \in f.patches}
    IN  CHOOSE e \in ends : \A d \in ends : Leq(d, e)

\* the digest in header h was fed the first sub-header with its size field
\* patched
DigestOfPatched(h) ==
    (wctx.seg # <<>> /\ EntryOf(ENTRY_TYPE_MTK_KERNEL_HEADER).size # U64(0)) =>
        h.id.sha1[1].bytes.patches =
            {[at |-> U64(OffsetofMtkHeaderSize),
              val |-> SizePatch(ENTRY_TYPE_MTK_KERNEL_HEADER).val]}

\* C24: a close that finalizes truncates the file to the stored length,
\* then writes the size fields of the two sub-headers, then reads the
\* segments for the digest, and last writes the header at offset 0.  The
\* digest is fed no sub-header that is not patched, and a step that fails
\* is the last: the header is not written.
C24_Order ==
    [][(Finalizing /\ ~QueryFails) =>
          /\ StepsDone = 0 => wfile' = wfile
          /\ StepsDone >= 1 => wfile'.size = EndAfter(wfile')
          /\ wfile'.patches = PatchesAfter(wfile.patches, StepsDone)
          /\ wfile'.runs = wfile.runs \/ StepsDone >= 1
          /\ wlast'.failed => (~wfile'.head.has /\ wret' # RET_OK)
          /\ ~wlast'.failed =>
                 /\ wret' = RET_OK
                 /\ wfile'.head.has
                 /\ DigestOfPatched(wfile'.head.hdr)
      ]_vars

\* a close failed in its digest pass, after the truncate and the four
\* file operations on the size fields
C24_Witness ==
    /\ wlast.op = "close"
    /\ wlast.failed
    /\ wlast.n = 8
    /\ Len(wdata) = 6
    /\ Cardinality(wfile.patches) = 2
    /\ ~wfile.head.has
    /\ wfile.size = wctx.file_size

-----------------------------------------------------------------------------
(* The format of the digest's input.                                       *)

\* the bytes of the segment of type t, if it has any
TableBytes(t) ==
    IF EntryOf(t).size = U64(0) THEN <<>>
    ELSE <<[bytes |-> BytesIn(wfile, EntryOf(t).offset,
                              Add(EntryOf(t).offset, EntryOf(t).size))]>>

\* the size of the payload of type t and of the sub-header of type ht before
\* it, as 32 bits
WithSubHeader(t, ht) ==
    <<[le32 |-> ToU32(Add(EntryOf(t).size, EntryOf(ht).size))]>>

\* the size term of the segment of type t
TableTerm(t) ==
    IF t = ENTRY_TYPE_KERNEL
    THEN WithSubHeader(t, ENTRY_TYPE_MTK_KERNEL_HEADER)
    ELSE IF t = ENTRY_TYPE_RAMDISK
    THEN WithSubHeader(t, ENTRY_TYPE_MTK_RAMDISK_HEADER)
    ELSE IF t = ENTRY_TYPE_SECONDBOOT
    THEN <<[le32 |-> ToU32(EntryOf(t).size)]>>
    ELSE IF t = ENTRY_TYPE_DEVICE_TREE /\ EntryOf(t).size # U64(0)
    THEN <<[le32 |-> ToU32(EntryOf(t).size)]>>
    ELSE <<>>

\* C25: the digest is fed, for each segment in table order, the segment's
\* bytes and then its size as 4 little-endian bytes: none for the two
\* sub-headers, the sizes of payload and sub-header together for KERNEL and
\* RAMDISK, the size even when it is 0 for SECONDBOOT, and the size only
\* when it is not 0 for DEVICE_TREE.  The terms of KERNEL and RAMDISK are
\* the kernel_size and ramdisk_size the header is written with.
C25_Format ==
    (Finalized /\ wctx.seg # <<>>) =>
        /\ wfile.head.hdr.id =
               Sha1(TableBytes(ENTRY_TYPE_MTK_KERNEL_HEADER)
                    \o TableBytes(ENTRY_TYPE_KERNEL)
                    \o TableTerm(ENTRY_TYPE_KERNEL)
                    \o TableBytes(ENTRY_TYPE_MTK_RAMDISK_HEADER)
                    \o TableBytes(ENTRY_TYPE_RAMDISK)
                    \o TableTerm(ENTRY_TYPE_RAMDISK)
                    \o TableBytes(ENTRY_TYPE_SECONDBOOT)
                    \o TableTerm(ENTRY_TYPE_SECONDBOOT)
                    \o TableBytes(ENTRY_TYPE_DEVICE_TREE)
                    \o TableTerm(ENTRY_TYPE_DEVICE_TREE))
        /\ TableTerm(ENTRY_TYPE_KERNEL)[1].le32 = wfile.head.hdr.kernel_size
        /\ TableTerm(ENTRY_TYPE_RAMDISK)[1].le32 = wfile.head.hdr.ramdisk_size

\* an image was finalized with a kernel and a ramdisk behind their
\* sub-headers, no second bootloader and no device tree: its digest ends
\* with the ramdisk's term and a term of 0
C25_Witness ==
    /\ Complete
    /\ EntryOf(ENTRY_TYPE_MTK_KERNEL_HEADER).size = U64(SizeofMtkHeader)
    /\ EntryOf(ENTRY_TYPE_KERNEL).size # U64(0)
    /\ EntryOf(ENTRY_TYPE_RAMDISK).size # U64(0)
    /\ EntryOf(ENTRY_TYPE_SECONDBOOT).size = U64(0)
    /\ EntryOf(ENTRY_TYPE_DEVICE_TREE).size = U64(0)
    /\ Len(wfile.head.hdr.id.sha1) = 7
    /\ wfile.head.hdr.id.sha1[7] = [le32 |-> U64(0)]
    /\ wfile.head.hdr.id.sha1[3].le32 =
           Add(EntryOf(ENTRY_TYPE_KERNEL).size, U64(SizeofMtkHeader))

====
